---- MODULE Spec2Model ----
(***************************************************************************)
(* A model of the event-driven bouncing-ball simulator of uzimpp/8pool:    *)
(* src/ball.py (Ball: predictors and resolvers), src/paddle.py (Paddle)    *)
(* and src/run_ball.py (BouncingSimulator: the priority-queue driver).     *)
(*                                                                         *)
(* Python floats are modelled as exact rationals <<n, d>> (d > 0, lowest   *)
(* terms); math.inf is <<1, 0>>.  math.sqrt is exact on perfect squares    *)
(* and rounds down to a multiple of 1/SqrtScale otherwise.                 *)
(***************************************************************************)
EXTENDS Integers, Sequences, FiniteSets, TLC

VARIABLES
    ball_list,   \* BouncingSimulator.ball_list: sequence of Ball records
    t,           \* BouncingSimulator.t: the simulation clock
    pq,          \* BouncingSimulator.pq: the binary heap of Event records
    p1,          \* Paddle p1 .location: a pair of integers
    p2,          \* Paddle p2 .location
    pc,          \* position of run(): "start", "pop" (top of the loop) or "update"
                 \* (inside __redraw, in turtle.update(), where key callbacks run);
                 \* in the Ball harness "call" or the name of the method called
    redraws,     \* number of __redraw calls so far (history)
    clocks,      \* per ball: the sum of the dt passed to Ball.move (history)
    keys_pending,\* key events waiting in the Tk queue during turtle.update()
    last,        \* what the last step of run() did (history)
    ret,         \* the value returned by the last predictor call (Ball harness)
    game         \* the pool game: PoolGame's flags and its CueStick

vars == <<ball_list, t, pq, p1, p2, pc, redraws, clocks, keys_pending, last, ret, game>>

----------------------------------------------------------------------------
(* Exact rational arithmetic standing for Python float arithmetic.         *)

Abs(n) == IF n < 0 THEN -n ELSE n

RECURSIVE GCD(_, _)
GCD(a, b) == IF b = 0 THEN a ELSE GCD(b, a % b)

Norm(n, d) ==
    LET g == GCD(Abs(n), Abs(d))
        s == IF d < 0 THEN -1 ELSE 1
    IN  IF n = 0 THEN <<0, 1>> ELSE <<s * (n \div g), s * (d \div g)>>

R(n) == <<n, 1>>
Inf == <<1, 0>>
IsInf(a) == a[2] = 0

RNeg(a) == <<-a[1], a[2]>>

RAdd(a, b) ==
    LET g == GCD(a[2], b[2])
        l == (a[2] \div g) * b[2]
    IN  Norm(a[1] * (l \div a[2]) + b[1] * (l \div b[2]), l)

RSub(a, b) == RAdd(a, RNeg(b))

RMul(a, b) ==
    LET g1 == GCD(Abs(a[1]), b[2])
        g2 == GCD(Abs(b[1]), a[2])
    IN  IF a[1] = 0 \/ b[1] = 0 THEN <<0, 1>>
        ELSE <<(a[1] \div g1) * (b[1] \div g2), (a[2] \div g2) * (b[2] \div g1)>>

\* a / b for b # 0
RDiv(a, b) ==
    IF b[1] < 0 THEN RMul(a, <<-b[2], -b[1]>>) ELSE RMul(a, <<b[2], b[1]>>)

Sign(a) == IF a[1] > 0 THEN 1 ELSE IF a[1] < 0 THEN -1 ELSE 0

\* comparisons; math.inf is greater than every finite value
RLt(a, b) ==
    IF IsInf(a) THEN FALSE
    ELSE IF IsInf(b) THEN TRUE
    ELSE Sign(RSub(a, b)) < 0

RLe(a, b) == a = b \/ RLt(a, b)
RAbs(a) == <<Abs(a[1]), a[2]>>
RMin(a, b) == IF RLt(b, a) THEN b ELSE a
RMax(a, b) == IF RLt(a, b) THEN b ELSE a

\* largest k with k * k <= n, by bisection
RECURSIVE ISqrtBin(_, _, _)
ISqrtBin(n, lo, hi) ==
    IF lo >= hi THEN lo
    ELSE LET mid == (lo + hi + 1) \div 2
         IN  IF mid * mid <= n THEN ISqrtBin(n, mid, hi) ELSE ISqrtBin(n, lo, mid - 1)

ISqrt(n) == ISqrtBin(n, 0, IF n < 46340 THEN n ELSE 46340)

IsSquare(n) == ISqrt(n) * ISqrt(n) = n

SqrtScale == 16

\* math.sqrt(a) for a >= 0
RSqrt(a) ==
    IF IsSquare(a[1]) /\ IsSquare(a[2]) THEN <<ISqrt(a[1]), ISqrt(a[2])>>
    ELSE Norm(ISqrt((a[1] * SqrtScale * SqrtScale) \div a[2]), SqrtScale)

----------------------------------------------------------------------------
(* src/ball.py: class Ball.  A ball is a record; a method that mutates     *)
(* its receiver is an operator returning the updated record(s).            *)

\* Ball.__init__
Ball(size, x, y, vx, vy, id, cw, ch) ==
    [size |-> size, x |-> x, y |-> y, vx |-> vx, vy |-> vy,
     mass |-> RMul(R(100), RMul(size, size)), count |-> 0, id |-> id,
     canvas_width |-> cw, canvas_height |-> ch]

\* Paddle.__init__ followed by Paddle.set_location
Paddle(width, height, location) ==
    [width |-> width, height |-> height, location |-> location]

\* a faulty variant of PositiveOrInf: "if t < 0"
PositiveOrZero(tt) == IF RLt(tt, R(0)) THEN Inf ELSE tt

\* Ball.time_to_hit: the last test, "if t <= 0: return math.inf"
PositiveOrInf(tt) == IF RLe(tt, R(0)) THEN Inf ELSE tt

\* Ball.time_to_hit from "if dvdr > 0" on, d being the discriminant
HitTime(dvdr, dvdv, d) ==
    IF RLt(R(0), dvdr) THEN Inf
    ELSE IF dvdv = R(0) THEN Inf
    ELSE IF RLt(d, R(0)) THEN Inf
    ELSE PositiveOrInf(RDiv(RNeg(RAdd(dvdr, RSqrt(d))), dvdv))

\* a faulty variant of Discriminant: sigma in place of sigma * sigma
DiscriminantOfSigma(dvdr, dvdv, drdr, sigma) ==
    RSub(RMul(dvdr, dvdr), RMul(dvdv, RSub(drdr, sigma)))

\* d = (dvdr * dvdr) - dvdv * (drdr - sigma * sigma)
Discriminant(dvdr, dvdv, drdr, sigma) ==
    RSub(RMul(dvdr, dvdr), RMul(dvdv, RSub(drdr, RMul(sigma, sigma))))

Dot(ax, ay, bx, by) == RAdd(RMul(ax, bx), RMul(ay, by))

HitTimeOf(dvdr, dvdv, drdr, sigma) ==
    HitTime(dvdr, dvdv, Discriminant(dvdr, dvdv, drdr, sigma))

HitTimeRel(dx, dy, dvx, dvy, sigma) ==
    HitTimeOf(Dot(dx, dy, dvx, dvy), Dot(dvx, dvy, dvx, dvy), Dot(dx, dy, dx, dy), sigma)

\* Ball.time_to_hit
time_to_hit(self, that) ==
    IF self.id = that.id THEN Inf
    ELSE HitTimeRel(RSub(that.x, self.x), RSub(that.y, self.y),
                    RSub(that.vx, self.vx), RSub(that.vy, self.vy),
                    RAdd(self.size, that.size))

\* a faulty variant of WallDt: "return dt if dt >= 0 else math.inf"
WallDtOrZero(dt) == IF RLe(R(0), dt) THEN dt ELSE Inf

\* the last line of both wall predictors: "return dt if dt > 0 else math.inf"
WallDt(dt) == IF RLt(R(0), dt) THEN dt ELSE Inf

\* Ball.time_to_hit_vertical_wall
time_to_hit_vertical_wall(self) ==
    IF self.vx = R(0) THEN Inf
    ELSE IF RLt(R(0), self.vx)
         THEN WallDt(RDiv(RSub(RSub(self.canvas_width, self.size), self.x), self.vx))
         ELSE WallDt(RDiv(RSub(RAdd(RNeg(self.canvas_width), self.size), self.x), self.vx))

\* Ball.time_to_hit_horizontal_wall
time_to_hit_horizontal_wall(self) ==
    IF self.vy = R(0) THEN Inf
    ELSE IF RLt(R(0), self.vy)
         THEN WallDt(RDiv(RSub(RSub(self.canvas_height, self.size), self.y), self.vy))
         ELSE WallDt(RDiv(RSub(RAdd(RNeg(self.canvas_height), self.size), self.y), self.vy))

\* Python's None, for dt_x and dt_y of time_to_hit_paddle
None == <<0, 0>>

Half(a) == RDiv(a, R(2))

\* time_to_hit_paddle, the last test: the collision point is within the
\* paddle bounds enlarged by the ball size
PaddleCheck(self, left, right, bottom, top, dt, future_x, future_y) ==
    IF /\ RLe(RSub(left, self.size), future_x)
       /\ RLe(future_x, RAdd(right, self.size))
       /\ RLe(RSub(bottom, self.size), future_y)
       /\ RLe(future_y, RAdd(top, self.size))
    THEN dt
    ELSE Inf

\* time_to_hit_paddle from "dt = min(...)" on, dt being that minimum
PaddleEarliest(self, left, right, bottom, top, dt) ==
    IF RLt(dt, R(0)) THEN Inf
    ELSE PaddleCheck(self, left, right, bottom, top, dt,
                     RAdd(self.x, RMul(self.vx, dt)), RAdd(self.y, RMul(self.vy, dt)))

\* min(dt for dt in [dt_x, dt_y] if dt is not None)
MinCandidate(dt_x, dt_y) ==
    IF dt_x = None THEN dt_y
    ELSE IF dt_y = None THEN dt_x
    ELSE RMin(dt_x, dt_y)

PaddleCandidates(self, left, right, bottom, top, dt_x, dt_y) ==
    IF dt_x = None /\ dt_y = None THEN Inf
    ELSE PaddleEarliest(self, left, right, bottom, top, MinCandidate(dt_x, dt_y))

\* the candidate time along one axis: v the velocity component, lo and hi
\* the distances to the near edges (dx_left, dx_right or dy_bottom, dy_top)
AxisCandidate(v, lo, hi) ==
    IF RLt(R(0), v)
    THEN (IF RLt(R(0), lo) THEN RDiv(lo, v) ELSE None)
    ELSE IF RLt(v, R(0))
    THEN (IF RLt(hi, R(0)) THEN RDiv(hi, v) ELSE None)
    ELSE None

PaddleEdges(self, left, right, bottom, top) ==
    PaddleCandidates(self, left, right, bottom, top,
                     AxisCandidate(self.vx, RSub(left, self.x), RSub(right, self.x)),
                     AxisCandidate(self.vy, RSub(bottom, self.y), RSub(top, self.y)))

\* Ball.time_to_hit_paddle
time_to_hit_paddle(self, paddle) ==
    PaddleEdges(self,
                RSub(paddle.location[1], Half(paddle.width)),
                RAdd(paddle.location[1], Half(paddle.width)),
                RSub(paddle.location[2], Half(paddle.height)),
                RAdd(paddle.location[2], Half(paddle.height)))

\* a faulty variant of ApplyForce: only self.count is incremented
ApplyForceOneCount(self, that, fx, fy) ==
    << [self EXCEPT !.vx = RAdd(@, RDiv(fx, self.mass)),
                    !.vy = RAdd(@, RDiv(fy, self.mass)),
                    !.count = @ + 1],
       [that EXCEPT !.vx = RSub(@, RDiv(fx, that.mass)),
                    !.vy = RSub(@, RDiv(fy, that.mass))] >>

\* bounce_off, "update velocities according to normal force" and
\* "update collision counts"
ApplyForce(self, that, fx, fy) ==
    << [self EXCEPT !.vx = RAdd(@, RDiv(fx, self.mass)),
                    !.vy = RAdd(@, RDiv(fy, self.mass)),
                    !.count = @ + 1],
       [that EXCEPT !.vx = RSub(@, RDiv(fx, that.mass)),
                    !.vy = RSub(@, RDiv(fy, that.mass)),
                    !.count = @ + 1] >>

NormalForce(self, that, dx, dy, dist, magnitude) ==
    ApplyForce(self, that, RDiv(RMul(magnitude, dx), dist), RDiv(RMul(magnitude, dy), dist))

\* a faulty variant of Magnitude: the factor 2 is left out
MagnitudeHalved(self, that, dvdr, dist) ==
    RDiv(RMul(RMul(self.mass, that.mass), dvdr),
         RMul(RAdd(self.mass, that.mass), dist))

\* magnitude = 2 * self.mass * that.mass * dvdr / ((self.mass + that.mass) * dist)
Magnitude(self, that, dvdr, dist) ==
    RDiv(RMul(RMul(RMul(R(2), self.mass), that.mass), dvdr),
         RMul(RAdd(self.mass, that.mass), dist))

BounceRel(self, that, dx, dy, dvx, dvy, dist) ==
    NormalForce(self, that, dx, dy, dist,
                Magnitude(self, that, Dot(dx, dy, dvx, dvy), dist))

\* Ball.bounce_off: <<self, that>> after the call
bounce_off(self, that) ==
    BounceRel(self, that, RSub(that.x, self.x), RSub(that.y, self.y),
              RSub(that.vx, self.vx), RSub(that.vy, self.vy),
              RAdd(self.size, that.size))

\* Ball.bounce_off_vertical_wall
bounce_off_vertical_wall(self) ==
    LET x1 == IF RLt(self.canvas_width, RAdd(self.x, self.size))
              THEN RSub(self.canvas_width, self.size)
              ELSE IF RLt(RSub(self.x, self.size), RNeg(self.canvas_width))
              THEN RAdd(RNeg(self.canvas_width), self.size)
              ELSE self.x
    IN  [self EXCEPT !.x = x1, !.vx = RNeg(self.vx), !.count = @ + 1]

\* Ball.bounce_off_horizontal_wall
bounce_off_horizontal_wall(self) ==
    LET y1 == IF RLt(self.canvas_height, RAdd(self.y, self.size))
              THEN RSub(self.canvas_height, self.size)
              ELSE IF RLt(RSub(self.y, self.size), RNeg(self.canvas_height))
              THEN RAdd(RNeg(self.canvas_height), self.size)
              ELSE self.y
    IN  [self EXCEPT !.y = y1, !.vy = RNeg(self.vy), !.count = @ + 1]

\* Ball.move
move(self, dt) ==
    LET new_x == RAdd(self.x, RMul(self.vx, dt))
        new_y == RAdd(self.y, RMul(self.vy, dt))
    IN  [self EXCEPT
           !.x = RMax(RMin(new_x, RSub(self.canvas_width, self.size)),
                      RAdd(RNeg(self.canvas_width), self.size)),
           !.y = RMax(RMin(new_y, RSub(self.canvas_height, self.size)),
                      RAdd(RNeg(self.canvas_height), self.size))]

\* bounce_off_paddle, "add a small velocity boost": speed is
\* sqrt(vx^2 + vy^2) and, for speed # 0, (v / speed) * (speed * 1.01) is v * 1.01
Boost(self) ==
    IF self.vx # R(0) \/ self.vy # R(0)
    THEN [self EXCEPT !.vx = RMul(@, <<101, 100>>), !.vy = RMul(@, <<101, 100>>),
                      !.count = @ + 1]
    ELSE [self EXCEPT !.count = @ + 1]

\* Ball.bounce_off_paddle
bounce_off_paddle(self, paddle) ==
    IF RLt(RMul(RAbs(RSub(self.y, paddle.location[2])), paddle.width),
           RMul(RAbs(RSub(self.x, paddle.location[1])), paddle.height))
    THEN Boost([self EXCEPT !.vx = RNeg(@)])
    ELSE Boost([self EXCEPT !.vy = RNeg(@)])

----------------------------------------------------------------------------
(* my_event.Event (imported by src/run_ball.py; its file is not in the     *)
(* repository snapshot) and the heapq operations run_ball.py calls.        *)
(* A ball reference is the ball's index in ball_list, 0 for None; a        *)
(* paddle reference is 1 (p1), 2 (p2) or 0 for None.                       *)

\* Event(time, a, b, paddle): the referenced balls' counters are captured
Event(time, a, b, paddle, balls) ==
    [time |-> time, a |-> a, b |-> b, paddle |-> paddle,
     count_a |-> IF a # 0 THEN balls[a].count ELSE -1,
     count_b |-> IF b # 0 THEN balls[b].count ELSE -1]

\* Event.is_valid: no referenced ball's counter has changed
is_valid(e, balls) ==
    /\ (e.a # 0 => balls[e.a].count = e.count_a)
    /\ (e.b # 0 => balls[e.b].count = e.count_b)

\* Event.__lt__: events are ordered by time
EventLt(e, f) == RLt(e.time, f.time)

\* heapq._siftdown(heap, startpos, pos), positions counted from 1
RECURSIVE SiftDown(_, _, _, _)
SiftDown(heap, startpos, pos, newitem) ==
    IF pos > startpos /\ EventLt(newitem, heap[pos \div 2])
    THEN SiftDown([heap EXCEPT ![pos] = heap[pos \div 2]], startpos, pos \div 2, newitem)
    ELSE [heap EXCEPT ![pos] = newitem]

\* heapq.heappush
heappush(heap, item) ==
    SiftDown(Append(heap, item), 1, Len(heap) + 1, item)

\* heapq._siftup(heap, pos): move the smaller child up to a leaf, then sift
\* the displaced item down from there
RECURSIVE SiftUp(_, _, _, _)
SiftUp(heap, startpos, pos, newitem) ==
    LET childpos == 2 * pos
        rightpos == childpos + 1
        c == IF rightpos <= Len(heap) /\ ~EventLt(heap[childpos], heap[rightpos])
             THEN rightpos ELSE childpos
    IN  IF childpos <= Len(heap)
        THEN SiftUp([heap EXCEPT ![pos] = heap[c]], startpos, c, newitem)
        ELSE SiftDown(heap, startpos, pos, newitem)

\* heapq.heappop on a non-empty heap: the heap that remains (the item
\* returned is heap[1])
heappop(heap) ==
    LET lastelt == heap[Len(heap)]
        rest == SubSeq(heap, 1, Len(heap) - 1)
    IN  IF rest = <<>> THEN rest ELSE SiftUp(rest, 1, 1, lastelt)

RECURSIVE PushAll(_, _)
PushAll(heap, items) ==
    IF items = <<>> THEN heap
    ELSE PushAll(heappush(heap, Head(items)), Tail(items))

----------------------------------------------------------------------------
(* src/run_ball.py: class BouncingSimulator.                               *)

\* turtle.screensize() as read by BouncingSimulator.__init__ and Ball.__init__
canvas_width == 120
canvas_height == 120

num_balls == 3
HZ == 4
move_speed == 50
PaddleWidth == 20
PaddleHeight == 120
PaddleOffset == 50

\* ball_radius = 0.025 * self.canvas_width
ball_radius == RMul(Norm(25, 1000), R(canvas_width))

\* the x of ball i (i counted from 0) in BouncingSimulator.__init__
InitX(i) ==
    RAdd(R(-canvas_width),
         RMul(R(i + 1), RDiv(R(2 * canvas_width), R(num_balls + 1))))

\* self.p1 (k = 1) or self.p2 (k = 2); their locations are lists of ints
PaddleOf(k) ==
    Paddle(R(PaddleWidth), R(PaddleHeight),
           IF k = 1 THEN <<R(p1[1]), R(p1[2])>> ELSE <<R(p2[1]), R(p2[2])>>)

\* a faulty variant of Predicted: Event(dt, a, b, paddle), the clock left out
PredictedRelative(dt, now, a, b, paddle, balls) ==
    IF IsInf(dt) THEN <<>> ELSE <<Event(dt, a, b, paddle, balls)>>

\* heappush(self.pq, Event(self.t + dt, a, b, paddle)) unless dt is math.inf:
\* the event pushed, as a sequence of length 0 or 1
Predicted(dt, now, a, b, paddle, balls) ==
    IF IsInf(dt) THEN <<>> ELSE <<Event(RAdd(now, dt), a, b, paddle, balls)>>

\* __predict(ball), the loop over other_ball: the events it pushes, in order
RECURSIVE BallEvents(_, _, _, _)
BallEvents(i, j, balls, now) ==
    IF j > Len(balls) THEN <<>>
    ELSE (IF i # j
          THEN Predicted(time_to_hit(balls[i], balls[j]), now, i, j, 0, balls)
          ELSE <<>>)
         \o BallEvents(i, j + 1, balls, now)

\* __predict(ball): the events it pushes, in order, when the clock is now;
\* i = 0 stands for ball None
predict(i, balls, now) ==
    IF i = 0 THEN <<>>
    ELSE Predicted(time_to_hit_vertical_wall(balls[i]), now, i, 0, 0, balls)
         \o Predicted(time_to_hit_horizontal_wall(balls[i]), now, 0, i, 0, balls)
         \o BallEvents(i, 1, balls, now)

\* __paddle_predict: "skip if ball is too close to walls"
NearWall(ball) ==
    \/ RLe(RSub(R(canvas_width), ball.size), RAbs(ball.x))
    \/ RLe(RSub(R(canvas_height), ball.size), RAbs(ball.y))

\* __paddle_predict: the events it pushes, in order
RECURSIVE paddle_predict(_, _, _)
paddle_predict(i, balls, now) ==
    IF i > Len(balls) THEN <<>>
    ELSE (IF NearWall(balls[i]) THEN <<>>
          ELSE Predicted(time_to_hit_paddle(balls[i], PaddleOf(1)), now, i, 0, 1, balls)
               \o Predicted(time_to_hit_paddle(balls[i], PaddleOf(2)), now, i, 0, 2, balls))
         \o paddle_predict(i + 1, balls, now)

\* bounds of the exploration: the clock runs to MaxTicks / HZ, and key
\* events arrive only during the redraws numbered in KeyRedraws
MaxTicks == 48
MaxTime == Norm(MaxTicks, HZ)
KeyRedraws == {40, 47}

\* the (vx, vy) that 10 * random.uniform(-1.0, 1.0) gives the three balls;
\* with the last of them the outer balls reach the middle one together
InitVelocities ==
    { << <<R(8), R(10)>>, <<R(-8), R(10)>>, <<R(10), R(10)>> >>,
      << <<R(0), R(8)>>, <<R(-5), R(0)>>, <<R(0), R(0)>> >>,
      << <<R(0), R(0)>>, <<R(10), R(0)>>, <<R(0), R(0)>> >>,
      << <<R(10), R(0)>>, <<R(0), R(0)>>, <<R(-10), R(0)>> >> }

\* outside the pool game there is no PoolGame object
NoGame == [shot_made |-> FALSE]

NoEvent == [time |-> R(0), a |-> 0, b |-> 0, paddle |-> 0, count_a |-> -1, count_b |-> -1]

Step(kind, e, pushed) == [kind |-> kind, e |-> e, pushed |-> pushed]

\* BouncingSimulator.__init__
InitSim ==
    /\ \E vel \in InitVelocities :
         ball_list = [i \in 1..num_balls |->
                        Ball(ball_radius, InitX(i - 1), R(0), vel[i][1], vel[i][2],
                             i - 1, R(canvas_width), R(canvas_height))]
    /\ t = R(0)
    /\ pq = <<>>
    /\ p1 = <<-canvas_width + PaddleOffset, 0>>
    /\ p2 = <<canvas_width - PaddleOffset, 0>>
    /\ pc = "start"
    /\ redraws = 0
    /\ clocks = [i \in 1..num_balls |-> R(0)]
    /\ keys_pending = 0
    /\ last = Step("init", NoEvent, <<>>)
    /\ ret = Inf
    /\ game = NoGame

\* run(), before the loop: __predict for every ball, then the first redraw event
RECURSIVE SeedEvents(_)
SeedEvents(i) ==
    IF i > Len(ball_list) THEN <<Event(R(0), 0, 0, 0, ball_list)>>
    ELSE predict(i, ball_list, t) \o SeedEvents(i + 1)

RunSeed ==
    /\ pc = "start"
    /\ last' = Step("seed", NoEvent, SeedEvents(1))
    /\ pq' = PushAll(pq, last'.pushed)
    /\ pc' = "pop"
    /\ UNCHANGED <<ball_list, t, p1, p2, redraws, clocks, keys_pending, ret, game>>

\* which branch of the loop body an event takes
EventKind(e, balls) ==
    IF ~is_valid(e, balls) THEN "stale"
    ELSE IF e.a # 0 /\ e.b # 0 /\ e.paddle = 0 THEN "ball"
    ELSE IF e.a # 0 /\ e.b = 0 /\ e.paddle = 0 THEN "vwall"
    ELSE IF e.a = 0 /\ e.b # 0 /\ e.paddle = 0 THEN "hwall"
    ELSE IF e.a = 0 /\ e.b = 0 /\ e.paddle = 0 THEN "redraw"
    ELSE IF e.a # 0 /\ e.b = 0 /\ e.paddle # 0 THEN "paddle"
    ELSE "none"

\* a faulty variant of AdvanceAll: only the balls the event names are moved
AdvanceParticipants(balls, clks, e, now) ==
    [balls |-> [i \in DOMAIN balls |->
                  IF i \in {e.a, e.b} THEN move(balls[i], RSub(e.time, now))
                  ELSE balls[i]],
     clocks |-> [i \in DOMAIN balls |->
                   IF i \in {e.a, e.b} THEN RAdd(clks[i], RSub(e.time, now))
                   ELSE clks[i]]]

\* "for ball in self.ball_list: ball.move(e.time - self.t)": the balls and
\* the time each has been advanced by in total
AdvanceAll(balls, clks, e, now) ==
    [balls |-> [i \in DOMAIN balls |-> move(balls[i], RSub(e.time, now))],
     clocks |-> [i \in DOMAIN balls |-> RAdd(clks[i], RSub(e.time, now))]]

\* the balls after the resolver of a valid event
Resolve(e, balls) ==
    LET k == EventKind(e, balls)
    IN  IF k = "ball"
        THEN LET r == bounce_off(balls[e.a], balls[e.b])
             IN  [balls EXCEPT ![e.a] = r[1], ![e.b] = r[2]]
        ELSE IF k = "vwall"
        THEN [balls EXCEPT ![e.a] = bounce_off_vertical_wall(balls[e.a])]
        ELSE IF k = "hwall"
        THEN [balls EXCEPT ![e.b] = bounce_off_horizontal_wall(balls[e.b])]
        ELSE IF k = "paddle"
        THEN [balls EXCEPT ![e.a] = bounce_off_paddle(balls[e.a], PaddleOf(e.paddle))]
        ELSE balls

\* a faulty variant of StalePop: the test comes after "Update positions"
StalePopAdvancing(balls, clks, e, now) ==
    [balls |-> AdvanceAll(balls, clks, e, now).balls,
     clocks |-> AdvanceAll(balls, clks, e, now).clocks,
     t |-> e.time]

\* "if not e.is_valid(): continue": the balls, the clock and the history
\* clocks as the loop leaves them after popping a stale event
StalePop(balls, clks, e, now) ==
    [balls |-> balls, clocks |-> clks, t |-> now]

\* the events pushed after the resolver of a collision event:
\* __predict(ball_a), __predict(ball_b), __paddle_predict()
Repredict(e, balls, now) ==
    predict(e.a, balls, now) \o predict(e.b, balls, now) \o paddle_predict(1, balls, now)

CanPop ==
    /\ pc = "pop"
    /\ pq # <<>>
    /\ RLe(pq[1].time, MaxTime)

\* the loop body from "Update positions" to the resolver, for a valid event
Advanced(e, adv) == [balls |-> Resolve(e, adv.balls), clocks |-> adv.clocks, t |-> e.time]

\* one pass of the loop on the event at the top of the heap, of kind k
RunPass(k) ==
    /\ CanPop
    /\ EventKind(pq[1], ball_list) = k
    /\ LET s == IF k = "stale" THEN StalePop(ball_list, clocks, pq[1], t)
                ELSE Advanced(pq[1], AdvanceAll(ball_list, clocks, pq[1], t))
       IN  /\ ball_list' = s.balls
           /\ clocks' = s.clocks
           /\ t' = s.t
    /\ last' = Step(k, pq[1],
                    IF k \in {"stale", "redraw"} THEN <<>>
                    ELSE Repredict(pq[1], ball_list', t'))
    /\ pq' = PushAll(heappop(pq), last'.pushed)
    /\ pc' = IF k = "redraw" THEN "update" ELSE "pop"
    /\ redraws' = IF k = "redraw" THEN redraws + 1 ELSE redraws
    /\ \E n \in 0..1 :
         keys_pending' = (IF k = "redraw" /\ redraws' \in KeyRedraws THEN n ELSE 0)
    /\ UNCHANGED <<p1, p2, ret, game>>

\* a stale event: "continue"
RunStale ==
    /\ pc = "pop"
    /\ RunPass("stale")
\* ball_a.bounce_off(ball_b)
RunBallBall ==
    /\ pc = "pop"
    /\ RunPass("ball")
\* ball_a.bounce_off_vertical_wall()
RunVerticalWall ==
    /\ pc = "pop"
    /\ RunPass("vwall")
\* ball_b.bounce_off_horizontal_wall()
RunHorizontalWall ==
    /\ pc = "pop"
    /\ RunPass("hwall")
\* ball_a.bounce_off_paddle(paddle_a)
RunPaddle ==
    /\ pc = "pop"
    /\ RunPass("paddle")
\* self.__redraw(), up to turtle.update(), where Tk delivers the key events
\* that are waiting
RunRedraw ==
    /\ pc = "pop"
    /\ RunPass("redraw")

\* a faulty variant of NextRedraw: self.t + 1, HZ left out
NextRedrawWholeSecond(now) == RAdd(now, R(1))

\* the time of the next redraw event
NextRedraw(now) == RAdd(now, <<1, HZ>>)

\* the rest of that pass: __redraw pushes the next redraw event, then
\* __predict(None) twice and __paddle_predict()
RedrawReturn ==
    /\ pc = "update"
    /\ keys_pending = 0
    /\ last' = Step("return", NoEvent,
                    <<Event(NextRedraw(t), 0, 0, 0, ball_list)>>
                    \o paddle_predict(1, ball_list, t))
    /\ pq' = PushAll(pq, last'.pushed)
    /\ pc' = "pop"
    /\ UNCHANGED <<ball_list, t, p1, p2, redraws, clocks, keys_pending>>
    /\ UNCHANGED <<ret, game>>

Loc(k) == IF k = 1 THEN p1 ELSE p2

\* a key callback runs: the paddle k ends at location loc
KeyStep(k, loc) ==
    /\ pc = "update"
    /\ keys_pending > 0
    /\ keys_pending' = keys_pending - 1
    /\ p1' = IF k = 1 THEN loc ELSE p1
    /\ p2' = IF k = 2 THEN loc ELSE p2
    /\ last' = Step("key", NoEvent, <<>>)
    /\ UNCHANGED <<ball_list, t, pq, pc, redraws, clocks, ret, game>>

\* BouncingSimulator.move_paddle_up(paddle); the test is the code's with
\* both sides doubled, paddle.height/2 being exact
move_paddle_up(k) ==
    /\ pc = "update"
    /\ KeyStep(k, IF 2 * Loc(k)[2] + PaddleHeight + 2 * move_speed <= 2 * canvas_height
               THEN <<Loc(k)[1], Loc(k)[2] + move_speed>> ELSE Loc(k))

\* BouncingSimulator.move_paddle_down(paddle)
move_paddle_down(k) ==
    /\ pc = "update"
    /\ KeyStep(k, IF 2 * Loc(k)[2] - PaddleHeight - 2 * move_speed >= -2 * canvas_height
               THEN <<Loc(k)[1], Loc(k)[2] - move_speed>> ELSE Loc(k))

\* BouncingSimulator.move_paddle_left(paddle)
move_paddle_left(k) ==
    /\ pc = "update"
    /\ KeyStep(k, IF 2 * Loc(k)[1] - PaddleWidth - 2 * move_speed
                      >= (IF k = 1 THEN -2 * canvas_width ELSE 0)
               THEN <<Loc(k)[1] - move_speed, Loc(k)[2]>> ELSE Loc(k))

\* BouncingSimulator.move_paddle_right(paddle)
move_paddle_right(k) ==
    /\ pc = "update"
    /\ KeyStep(k, IF 2 * Loc(k)[1] + PaddleWidth + 2 * move_speed
                      <= (IF k = 1 THEN 0 ELSE 2 * canvas_width)
               THEN <<Loc(k)[1] + move_speed, Loc(k)[2]>> ELSE Loc(k))

KeyUp == \E k \in {1, 2} : move_paddle_up(k)
KeyDown == \E k \in {1, 2} : move_paddle_down(k)
KeyLeft == \E k \in {1, 2} : move_paddle_left(k)
KeyRight == \E k \in {1, 2} : move_paddle_right(k)

Run ==
    \/ RunSeed
    \/ RunStale
    \/ RunBallBall
    \/ RunVerticalWall
    \/ RunHorizontalWall
    \/ RunPaddle
    \/ RunRedraw
    \/ RedrawReturn

Next ==
    \/ Run
    \/ KeyUp
    \/ KeyDown
    \/ KeyLeft
    \/ KeyRight

Spec == InitSim /\ [][Next]_vars

\* the key callbacks that Tk runs inside turtle.update()
Keys ==
    \/ KeyUp
    \/ KeyDown
    \/ KeyLeft
    \/ KeyRight

\* some step of run() is possible: this is ENABLED <<Run>>_vars
CanRun == pc = "start" \/ CanPop \/ (pc = "update" /\ keys_pending = 0)

\* turtle.update() runs the callbacks of the waiting key events and returns
\* (weak fairness of Keys), and run() is a loop that nothing suspends (weak
\* fairness of Run, with ENABLED <<Run>>_vars written as CanRun)
FairSpec ==
    /\ Spec
    /\ WF_vars(Keys)
    /\ ([]<>(~CanRun) \/ []<><<Run>>_vars)

----------------------------------------------------------------------------
(* The predictors of src/ball.py called on balls built directly by         *)
(* Ball(...), outside run(): ball_list holds <<self, that>>, p1 the         *)
(* location of one paddle, ret the value returned.                          *)

\* the table and the balls of the harness
TableHalfExtent == 100
BodyRadius == 5

\* the inputs the harness draws from
SelfXs == {-20, 0, 95}
SelfYs == {0, 5}
Speeds == {-10, 0, 10}
ThatPlaces == {<<6, 0>>, <<10, 0>>, <<30, 0>>, <<30, 5>>, <<30, 40>>}
ThatSpeeds == {<<0, 0>>, <<-10, 0>>}
PaddlePlaces == {<<0, 0>>, <<40, 0>>}

HarnessBall(x, y, vx, vy, id) ==
    Ball(R(BodyRadius), R(x), R(y), R(vx), R(vy), id,
         R(TableHalfExtent), R(TableHalfExtent))

InitBall ==
    /\ \E x \in SelfXs, y \in SelfYs, vx \in Speeds, vy \in Speeds,
          q \in ThatPlaces, w \in ThatSpeeds :
         ball_list = << HarnessBall(x, y, vx, vy, 0),
                        HarnessBall(q[1], q[2], w[1], w[2], 1) >>
    /\ p1 \in PaddlePlaces
    /\ p2 = <<0, 0>>
    /\ t = R(0)
    /\ pq = <<>>
    /\ pc = "call"
    /\ redraws = 0
    /\ clocks = <<R(0), R(0)>>
    /\ keys_pending = 0
    /\ last = Step("init", NoEvent, <<>>)
    /\ ret = Inf
    /\ game = NoGame

\* one call of method op: value is what it returns, pushed the events it
\* pushes on the queue
Call(op, value, pushed) ==
    /\ pc = "call"
    /\ pc' = op
    /\ ret' = value
    /\ UNCHANGED game
    /\ last' = Step(op, NoEvent, pushed)
    /\ pq' = PushAll(pq, pushed)
    /\ UNCHANGED <<ball_list, t, p1, p2, redraws, clocks, keys_pending>>

CallTimeToHit ==
    /\ pc = "call"
    /\ Call("time_to_hit", time_to_hit(ball_list[1], ball_list[2]), <<>>)

CallTimeToHitVerticalWall ==
    /\ pc = "call"
    /\ Call("time_to_hit_vertical_wall", time_to_hit_vertical_wall(ball_list[1]), <<>>)

CallTimeToHitHorizontalWall ==
    /\ pc = "call"
    /\ Call("time_to_hit_horizontal_wall", time_to_hit_horizontal_wall(ball_list[1]), <<>>)

CallTimeToHitPaddle ==
    /\ pc = "call"
    /\ Call("time_to_hit_paddle", time_to_hit_paddle(ball_list[1], PaddleOf(1)), <<>>)

\* BouncingSimulator.__predict(self) at clock t; it returns None
CallPredict ==
    /\ pc = "call"
    /\ Call("predict", None, predict(1, ball_list, t))

NextBall ==
    \/ CallTimeToHit
    \/ CallTimeToHitVerticalWall
    \/ CallTimeToHitHorizontalWall
    \/ CallTimeToHitPaddle
    \/ CallPredict

BallSpec == InitBall /\ [][NextBall]_vars

----------------------------------------------------------------------------
(* Properties of the driver, stated on Spec and FairSpec.                  *)

\* C1 (first half): every event pushed by the last step has a time greater
\* than or equal to the clock self.t at the moment of the push
C1_PushedNotBeforeClock ==
    \A k \in DOMAIN last.pushed : RLe(t, last.pushed[k].time)

\* C1: every event pushed onto the queue has a time >= self.t at the push,
\* and the values taken by self.t never decrease
C1_EventTimes ==
    [](C1_PushedNotBeforeClock) /\ [][RLe(t, t')]_vars

\* a ball-ball bounce at a positive clock after which an event was predicted
\* for a strictly later time
C1_Witness ==
    /\ last.kind = "ball"
    /\ RLt(R(0), t)
    /\ \E k \in DOMAIN last.pushed : RLt(t, last.pushed[k].time)

\* C2: every ball has been advanced by exactly the time the clock shows:
\* all balls are moved by the same interval on every valid event, and at
\* no other point
C2_AllBallsShareClock ==
    \A i \in DOMAIN ball_list : clocks[i] = t

\* a wall bounce was resolved at a positive clock
C2_Witness ==
    /\ last.kind = "vwall"
    /\ RLt(R(0), t)
    /\ \A i \in DOMAIN ball_list : clocks[i] = t

\* the event on top of the queue is stale
C3_StaleOnTop ==
    /\ pc = "pop"
    /\ pq # <<>>
    /\ ~is_valid(pq[1], ball_list)

\* C3: popping a stale event only removes it from the queue: no ball, the
\* clock, no paddle changes, nothing is pushed and the loop pops again
C3_StalePopOnlyRemoves ==
    [][C3_StaleOnTop =>
         /\ ball_list' = ball_list
         /\ t' = t
         /\ clocks' = clocks
         /\ p1' = p1
         /\ p2' = p2
         /\ pq' = heappop(pq)
         /\ Len(pq') = Len(pq) - 1
         /\ last'.pushed = <<>>
         /\ pc' = "pop"]_vars

\* a stale event was popped whose time is later than the clock
C3_Witness ==
    /\ last.kind = "stale"
    /\ RLt(t, last.e.time)

IsHeartbeat(e) == e.a = 0 /\ e.b = 0 /\ e.paddle = 0

Heartbeats(q) == {k \in DOMAIN q : IsHeartbeat(q[k])}

\* C4 (at a pop): exactly one heartbeat is pending, so the queue is not empty
C4_HeartbeatPending ==
    pc = "pop" => Cardinality(Heartbeats(pq)) = 1 /\ pq # <<>>

\* C4 (after a heartbeat): exactly one new heartbeat was pushed, for t + 1/HZ
C4_HeartbeatRenewed ==
    last.kind = "return" =>
        /\ Cardinality(Heartbeats(last.pushed)) = 1
        /\ \A k \in Heartbeats(last.pushed) :
               last.pushed[k].time = RAdd(t, Norm(1, HZ))

\* C4: a heartbeat is pending at every pop and the queue is never found
\* empty; each processed heartbeat is followed by exactly one new heartbeat
\* at t + 1/HZ; heartbeats keep being processed (here: all MaxTicks + 1 of
\* the horizon are)
C4_Heartbeat ==
    /\ [](C4_HeartbeatPending /\ C4_HeartbeatRenewed)
    /\ (pc = "update") ~> (last.kind = "return")
    /\ <>(redraws = MaxTicks + 1)

\* a heartbeat other than the first has been processed and renewed
C4_Witness ==
    /\ last.kind = "return"
    /\ redraws >= 2
    /\ Cardinality(Heartbeats(pq)) = 1

\* C5: no ball's count decreases, and a ball whose velocity changes has its
\* count strictly increased by the same step
C5_CountGuardsVelocity ==
    [][\A i \in DOMAIN ball_list :
         /\ ball_list'[i].count >= ball_list[i].count
         /\ (<<ball_list'[i].vx, ball_list'[i].vy>> # <<ball_list[i].vx, ball_list[i].vy>>
               => ball_list'[i].count > ball_list[i].count)]_vars

\* a ball-ball bounce has incremented the count of both participants
C5_Witness ==
    /\ last.kind = "ball"
    /\ ball_list[last.e.a].count > 0
    /\ ball_list[last.e.b].count > 0

----------------------------------------------------------------------------
(* Properties of the predictors, stated on BallSpec.                       *)

\* the quantities of time_to_hit for the pair <<self, that>> of the harness
PairDx == RSub(ball_list[2].x, ball_list[1].x)
PairDy == RSub(ball_list[2].y, ball_list[1].y)
PairDvx == RSub(ball_list[2].vx, ball_list[1].vx)
PairDvy == RSub(ball_list[2].vy, ball_list[1].vy)
PairDvdr == Dot(PairDx, PairDy, PairDvx, PairDvy)
PairDvdv == Dot(PairDvx, PairDvy, PairDvx, PairDvy)
PairDrdr == Dot(PairDx, PairDy, PairDx, PairDy)
PairSigmaSq ==
    RMul(RAdd(ball_list[1].size, ball_list[2].size),
         RAdd(ball_list[1].size, ball_list[2].size))
PairD == RSub(RMul(PairDvdr, PairDvdr), RMul(PairDvdv, RSub(PairDrdr, PairSigmaSq)))

\* the squared distance between the centres after both balls have moved in
\* a straight line for tt
PairDistSqAfter(tt) ==
    Dot(RAdd(PairDx, RMul(PairDvx, tt)), RAdd(PairDy, RMul(PairDvy, tt)),
        RAdd(PairDx, RMul(PairDvx, tt)), RAdd(PairDy, RMul(PairDvy, tt)))

\* C6: time_to_hit returns math.inf for every pair with dvdr >= 0
C6_SeparatingNeverHits ==
    (pc = "time_to_hit" /\ RLe(R(0), PairDvdr)) => ret = Inf

\* time_to_hit was called on an overlapping pair with dvdr = 0 exactly
C6_Witness ==
    /\ pc = "time_to_hit"
    /\ PairDvdr = R(0)
    /\ PairDvdv # R(0)
    /\ RLt(PairDrdr, PairSigmaSq)
    /\ ret = Inf

\* the centres are rA + rB apart after tt: exactly when the square root of
\* d is exact, otherwise within the rounding of that square root
PairTouchesAfter(tt) ==
    IF IsSquare(PairD[1]) /\ IsSquare(PairD[2])
    THEN PairDistSqAfter(tt) = PairSigmaSq
    ELSE /\ RLe(PairDistSqAfter(tt), PairSigmaSq)
         /\ RLt(PairSigmaSq,
                PairDistSqAfter(RSub(tt, RDiv(Norm(1, SqrtScale), PairDvdv))))

PairConverging == RLt(PairDvdr, R(0)) /\ RLe(R(0), PairD)

\* C7 (amended): for a converging pair (dvdr < 0, d >= 0) whose centres are
\* more than rA + rB apart, time_to_hit returns t > 0 with the centres
\* rA + rB apart after both move for t; for a converging pair that touches
\* or overlaps it returns math.inf
C7_ContactWhenApart ==
    (pc = "time_to_hit" /\ PairConverging) =>
        IF RLt(PairSigmaSq, PairDrdr)
        THEN ~IsInf(ret) /\ RLt(R(0), ret) /\ PairTouchesAfter(ret)
        ELSE ret = Inf

\* time_to_hit returned a time for a converging pair that is apart, the
\* square root of d not being exact
C7_Witness ==
    /\ pc = "time_to_hit"
    /\ PairConverging
    /\ RLt(PairSigmaSq, PairDrdr)
    /\ ~IsSquare(PairD[1])
    /\ ~IsInf(ret)

\* C7 as stated: for every converging pair (dvdr < 0, d >= 0) time_to_hit
\* returns t with the centres rA + rB apart after both move for t
C7_ContactWhenConverging ==
    (pc = "time_to_hit" /\ PairConverging) =>
        ~IsInf(ret) /\ PairTouchesAfter(ret)

\* C8: each predictor returns math.inf or a strictly positive time
C8_NeverOrPositive ==
    pc \in {"time_to_hit", "time_to_hit_vertical_wall",
            "time_to_hit_horizontal_wall", "time_to_hit_paddle"}
        => IsInf(ret) \/ RLt(R(0), ret)

\* the wall predictor was called on a ball whose edge is on the rail it
\* moves into, where the quotient dt is 0
C8_Witness ==
    /\ pc = "time_to_hit_vertical_wall"
    /\ RAdd(ball_list[1].x, ball_list[1].size) = ball_list[1].canvas_width
    /\ RLt(R(0), ball_list[1].vx)
    /\ ret = Inf

\* the scenario of C9: x = 95, radius 5, vx = 10, half-extent 100
C9_OnRail ==
    /\ ball_list[1].x = R(95)
    /\ ball_list[1].size = R(5)
    /\ ball_list[1].vx = R(10)
    /\ ball_list[1].canvas_width = R(100)

\* C9: in that scenario the wall predictor returns 0, and __predict pushes
\* the wall contact as an event at the current clock for the driver to
\* resolve on its next cycle
C9_RailContactIsAnEvent ==
    C9_OnRail =>
        /\ (pc = "time_to_hit_vertical_wall" => ret = R(0))
        /\ (pc = "predict" =>
               \E k \in DOMAIN last.pushed :
                   /\ last.pushed[k].a = 1
                   /\ last.pushed[k].b = 0
                   /\ last.pushed[k].paddle = 0
                   /\ last.pushed[k].time = t)

\* minus infinity, for the slab test
NegInf == <<-1, 0>>

ELe(a, b) ==
    IF a = NegInf \/ b = Inf THEN TRUE
    ELSE IF a = Inf \/ b = NegInf THEN FALSE
    ELSE RLe(a, b)

EMax(a, b) == IF ELe(a, b) THEN b ELSE a
EMin(a, b) == IF ELe(a, b) THEN a ELSE b

\* the times at which a point at pos moving with v enters and leaves [lo, hi]
SlabEnter(v, pos, lo, hi) ==
    IF RLt(R(0), v) THEN RDiv(RSub(lo, pos), v)
    ELSE IF RLt(v, R(0)) THEN RDiv(RSub(hi, pos), v)
    ELSE IF RLe(lo, pos) /\ RLe(pos, hi) THEN NegInf ELSE Inf

SlabExit(v, pos, lo, hi) ==
    IF RLt(R(0), v) THEN RDiv(RSub(hi, pos), v)
    ELSE IF RLt(v, R(0)) THEN RDiv(RSub(lo, pos), v)
    ELSE IF RLe(lo, pos) /\ RLe(pos, hi) THEN Inf ELSE NegInf

\* the smallest positive time at which the point is on the boundary of the
\* rectangle, from the time enter at which it comes in and the time exit at
\* which it goes out
SlabTime(enter, exit) ==
    IF ~ELe(enter, exit) THEN Inf
    ELSE IF enter # NegInf /\ enter # Inf /\ RLt(R(0), enter) THEN enter
    ELSE IF exit # NegInf /\ exit # Inf /\ RLt(R(0), exit) THEN exit
    ELSE Inf

\* the reference slab test on the rectangle of the paddle enlarged by the
\* ball's radius on every side
SlabReference(self, paddle) ==
    SlabTime(EMax(SlabEnter(self.vx, self.x,
                            RSub(RSub(paddle.location[1], Half(paddle.width)), self.size),
                            RAdd(RAdd(paddle.location[1], Half(paddle.width)), self.size)),
                  SlabEnter(self.vy, self.y,
                            RSub(RSub(paddle.location[2], Half(paddle.height)), self.size),
                            RAdd(RAdd(paddle.location[2], Half(paddle.height)), self.size))),
             EMin(SlabExit(self.vx, self.x,
                           RSub(RSub(paddle.location[1], Half(paddle.width)), self.size),
                           RAdd(RAdd(paddle.location[1], Half(paddle.width)), self.size)),
                  SlabExit(self.vy, self.y,
                           RSub(RSub(paddle.location[2], Half(paddle.height)), self.size),
                           RAdd(RAdd(paddle.location[2], Half(paddle.height)), self.size))))

\* C10: time_to_hit_paddle returns what the reference slab test on the
\* radius-enlarged rectangle returns
C10_PaddleIsSlabTest ==
    pc = "time_to_hit_paddle" => ret = SlabReference(ball_list[1], PaddleOf(1))

----------------------------------------------------------------------------
(* src/src/config.py and src/src/ball.py: the pool ball (class Ball of     *)
(* the pool game).  Its size is BALL_RADIUS and its mass BALL_MASS.        *)

BALL_RADIUS == 12
CANVAS_WIDTH == 450
CANVAS_HEIGHT == 225
DT == <<1, 60>>
GRAVITY == <<49, 5>>
SLIDING_FRICTION_COEF == <<1, 5>>
BALL_BALL_RESTITUTION == <<24, 25>>
BALL_RAIL_RESTITUTION == <<3, 4>>
BALL_MASS == <<17, 100>>
MIN_SPEED_PX_S == <<1, 10>>
CUEBALL_POS == <<Norm(-CANVAS_WIDTH, 2), R(0)>>

\* Ball.__init__ (CueBall when number = 0); size and mass are properties
PoolBall(pos, velocity, number) ==
    [x |-> pos[1], y |-> pos[2], vx |-> velocity[1], vy |-> velocity[2],
     number |-> number, size |-> R(BALL_RADIUS), mass |-> BALL_MASS]

\* isinstance(ball, CueBall)
IsCueBall(ball) == ball.number = 0

Sq(a) == RMul(a, a)

\* Ball.distance
distance(self, other) ==
    RSqrt(RAdd(Sq(RSub(other.y, self.y)), Sq(RSub(other.x, self.x))))

\* Ball._speed
Speed(self) == RSqrt(RAdd(Sq(self.vx), Sq(self.vy)))

\* Ball.is_moving
is_moving(self) == self.vx # R(0) \/ self.vy # R(0)

\* a faulty variant of RailReflect: the rail takes no energy
RailReflectElastic(v) == RNeg(v)

\* "-BALL_RAIL_RESTITUTION * self.vx" and "-BALL_RAIL_RESTITUTION * self.vy"
RailReflect(v) == RMul(RNeg(BALL_RAIL_RESTITUTION), v)

\* Ball.bounce_off_horizontal_rail: the rails at x = -canvas_width and
\* x = canvas_width
bounce_off_horizontal_rail(self, cw) ==
    IF RLt(RSub(self.x, R(BALL_RADIUS)), RNeg(cw))
    THEN [self EXCEPT !.x = RAdd(RNeg(cw), R(BALL_RADIUS)),
                      !.vx = RailReflect(self.vx)]
    ELSE IF RLt(cw, RAdd(self.x, R(BALL_RADIUS)))
    THEN [self EXCEPT !.x = RSub(cw, R(BALL_RADIUS)),
                      !.vx = RailReflect(self.vx)]
    ELSE self

\* Ball.bounce_off_vertical_rail: the rails at y = -canvas_height and
\* y = canvas_height
bounce_off_vertical_rail(self, ch) ==
    IF RLt(RSub(self.y, R(BALL_RADIUS)), RNeg(ch))
    THEN [self EXCEPT !.y = RAdd(RNeg(ch), R(BALL_RADIUS)),
                      !.vy = RailReflect(self.vy)]
    ELSE IF RLt(ch, RAdd(self.y, R(BALL_RADIUS)))
    THEN [self EXCEPT !.y = RSub(ch, R(BALL_RADIUS)),
                      !.vy = RailReflect(self.vy)]
    ELSE self

\* a faulty variant of ApplyImpulse: the whole impulse goes to other
ApplyImpulseToOther(self, other, impulse, nx, ny) ==
    << self,
       [other EXCEPT !.vx = RAdd(@, RDiv(RMul(impulse, nx), other.mass)),
                     !.vy = RAdd(@, RDiv(RMul(impulse, ny), other.mass))] >>

\* a faulty variant of ApplyImpulse: only vx of each ball is updated
ApplyImpulseAlongX(self, other, impulse, nx, ny) ==
    << [self EXCEPT !.vx = RSub(@, RDiv(RMul(impulse, nx), self.mass))],
       [other EXCEPT !.vx = RAdd(@, RDiv(RMul(impulse, nx), other.mass))] >>

\* bounce_off, "Update velocities"
ApplyImpulse(self, other, impulse, nx, ny) ==
    << [self EXCEPT !.vx = RSub(@, RDiv(RMul(impulse, nx), self.mass)),
                    !.vy = RSub(@, RDiv(RMul(impulse, ny), self.mass))],
       [other EXCEPT !.vx = RAdd(@, RDiv(RMul(impulse, nx), other.mass)),
                     !.vy = RAdd(@, RDiv(RMul(impulse, ny), other.mass))] >>

\* a faulty variant of Impulse: the restitution is left out
ImpulseWithoutRestitution(self, other, vn) ==
    RDiv(RNeg(vn), RAdd(RDiv(R(1), self.mass), RDiv(R(1), other.mass)))

\* impulse = -(1 + e) * vn / (1 / self.mass + 1 / other.mass)
Impulse(self, other, vn) ==
    RDiv(RMul(RNeg(RAdd(R(1), BALL_BALL_RESTITUTION)), vn),
         RAdd(RDiv(R(1), self.mass), RDiv(R(1), other.mass)))

\* a faulty variant of BounceAlong: no test of "vn > 0"
BounceAlongAlways(self, other, nx, ny, vn) ==
    ApplyImpulse(self, other, Impulse(self, other, vn), nx, ny)

\* bounce_off from "vn = dvx * nx + dvy * ny" on
BounceAlong(self, other, nx, ny, vn) ==
    IF RLt(R(0), vn) THEN <<self, other>>
    ELSE ApplyImpulse(self, other, Impulse(self, other, vn), nx, ny)

\* nx = dx / dist, ny = dy / dist
UnitNormal(dx, dy, dist) == <<RDiv(dx, dist), RDiv(dy, dist)>>

BounceNormal(self, other, n) ==
    BounceAlong(self, other, n[1], n[2],
                Dot(RSub(other.vx, self.vx), RSub(other.vy, self.vy), n[1], n[2]))

BounceAt(self, other, dx, dy, dist) ==
    IF dist = R(0) THEN <<self, other>>
    ELSE BounceNormal(self, other, UnitNormal(dx, dy, dist))

\* Ball.bounce_off of the pool ball: <<self, other>> after the call
pool_bounce_off(self, other) ==
    BounceAt(self, other, RSub(other.x, self.x), RSub(other.y, self.y),
             distance(self, other))

\* move, the friction update of a moving ball
Decelerate(self, speed, dt) ==
    LET friction_force == RMul(RMul(RAdd(R(1), SLIDING_FRICTION_COEF), self.mass), GRAVITY)
        ax == RMul(RNeg(RDiv(friction_force, self.mass)), RDiv(self.vx, speed))
        ay == RMul(RNeg(RDiv(friction_force, self.mass)), RDiv(self.vy, speed))
    IN  [self EXCEPT !.vx = RAdd(@, RMul(ax, dt)), !.vy = RAdd(@, RMul(ay, dt))]

\* move, "Stop the ball if speed is very low"
StopIfSlow(self) ==
    IF RLt(Speed(self), MIN_SPEED_PX_S) THEN [self EXCEPT !.vx = R(0), !.vy = R(0)]
    ELSE self

\* move, "Update position"
Displace(self, dt) ==
    [self EXCEPT !.x = RAdd(@, RMul(self.vx, dt)), !.y = RAdd(@, RMul(self.vy, dt))]

\* Ball.move of the pool ball
pool_move(self, dt) ==
    IF RLt(R(0), Speed(self))
    THEN Displace(StopIfSlow(Decelerate(self, Speed(self), dt)), dt)
    ELSE Displace([self EXCEPT !.vx = R(0), !.vy = R(0)], dt)

----------------------------------------------------------------------------
(* src/src/table.py (Table.check_pockets) and src/physic.py (class         *)
(* PhysicsEngine).  A ball list is a sequence of pool balls with distinct  *)
(* numbers; an engine state is [balls, pocketed, raised]: the ball list,   *)
(* Table.pocketed (ball numbers) and whether an exception has been raised. *)

PEN_SIZE == 3
adjust == 15
BALL_DIAMETER == RAdd(R(2 * BALL_RADIUS), RMul(<<5, 4>>, R(PEN_SIZE)))

\* Table.pockets
Pockets ==
    << <<-CANVAS_WIDTH, CANVAS_HEIGHT>>, <<CANVAS_WIDTH, CANVAS_HEIGHT>>,
       <<-CANVAS_WIDTH, -CANVAS_HEIGHT>>, <<CANVAS_WIDTH, -CANVAS_HEIGHT>>,
       <<0, CANVAS_HEIGHT>>, <<0, -CANVAS_HEIGHT>> >>

\* some bound on BALL_DIAMETER + adjust - ball.size, in whole pixels
PocketReach == 2 * BALL_RADIUS + 2 * PEN_SIZE + adjust

\* check_pockets, "dist + ball.size - adjust < BALL_DIAMETER"; a ball
\* farther than PocketReach along one axis is farther than that from the
\* pocket, and its distance is not computed
InPocket(ball, dx, dy) ==
    IF RLe(R(PocketReach), RAbs(dx)) \/ RLe(R(PocketReach), RAbs(dy)) THEN FALSE
    ELSE RLt(RSub(RAdd(RSqrt(RAdd(Sq(dx), Sq(dy))), ball.size), R(adjust)),
             BALL_DIAMETER)

IsPocketed(ball) ==
    \E k \in DOMAIN Pockets :
        InPocket(ball, RSub(ball.x, R(Pockets[k][1])), RSub(ball.y, R(Pockets[k][2])))

\* PhysicsEngine._handle_cue_ball_pocketed
handle_cue_ball_pocketed(cueball) ==
    [cueball EXCEPT !.x = CUEBALL_POS[1], !.y = CUEBALL_POS[2], !.vx = R(0), !.vy = R(0)]

\* a faulty variant of AfterPockets: the cue ball is removed like any ball
AfterPocketsRemoveAll(balls) == SelectSeq(balls, LAMBDA b : ~IsPocketed(b))

\* PhysicsEngine.check_pockets, the loop over the pocketed balls
AfterPockets(balls) ==
    LET kept == SelectSeq(balls, LAMBDA b : IsCueBall(b) \/ ~IsPocketed(b))
    IN  [k \in DOMAIN kept |->
            IF IsPocketed(kept[k]) THEN handle_cue_ball_pocketed(kept[k]) ELSE kept[k]]

\* Table.check_pockets, "self.pocketed.append(ball)"
NewlyPocketed(balls) ==
    LET hit == SelectSeq(balls, IsPocketed)
    IN  [k \in DOMAIN hit |-> hit[k].number]

\* PhysicsEngine.check_table_edge_collisions
check_table_edge_collisions(ball) ==
    bounce_off_vertical_rail(bounce_off_horizontal_rail(ball, R(CANVAS_WIDTH)),
                             R(CANVAS_HEIGHT))

\* a faulty variant of Separate: each ball is displaced by the whole overlap
SeparateByOverlap(pair, dx, dy, dist, overlap) ==
    << [pair[1] EXCEPT !.x = RSub(@, RMul(RDiv(dx, dist), overlap)),
                       !.y = RSub(@, RMul(RDiv(dy, dist), overlap))],
       [pair[2] EXCEPT !.x = RAdd(@, RMul(RDiv(dx, dist), overlap)),
                       !.y = RAdd(@, RMul(RDiv(dy, dist), overlap))] >>

\* check_ball_collisions, the overlap correction of a pair
Separate(pair, dx, dy, dist, overlap) ==
    << [pair[1] EXCEPT !.x = RSub(@, RMul(RDiv(dx, dist), Half(overlap))),
                       !.y = RSub(@, RMul(RDiv(dy, dist), Half(overlap)))],
       [pair[2] EXCEPT !.x = RAdd(@, RMul(RDiv(dx, dist), Half(overlap))),
                       !.y = RAdd(@, RMul(RDiv(dy, dist), Half(overlap)))] >>

SetPair(balls, i, j, pair) == [balls EXCEPT ![i] = pair[1], ![j] = pair[2]]

\* check_ball_collisions, "if dist < (ball1.size + ball2.size)"
Overlapping(dist, sigma) == RLt(dist, sigma)

\* check_ball_collisions, the body of the inner loop: dividing by
\* dist = 0 raises ZeroDivisionError, after bounce_off has returned
CollidePair(st, i, j, dx, dy, dist) ==
    IF ~Overlapping(dist, RAdd(st.balls[i].size, st.balls[j].size)) THEN st
    ELSE IF dist = R(0)
    THEN [st EXCEPT !.balls = SetPair(@, i, j, pool_bounce_off(st.balls[i], st.balls[j])),
                    !.raised = TRUE]
    ELSE [st EXCEPT !.balls =
            SetPair(@, i, j,
                    Separate(pool_bounce_off(st.balls[i], st.balls[j]), dx, dy, dist,
                             RSub(RAdd(st.balls[i].size, st.balls[j].size), dist)))]

\* check_ball_collisions, "dist = math.sqrt(dx**2 + dy**2)": dist is used
\* only when it is below sigma; for a pair sigma or more apart along one
\* axis that offset stands for it and the root is not computed
DistOrFar(dx, dy, sigma) ==
    IF RLe(sigma, RAbs(dx)) THEN RAbs(dx)
    ELSE IF RLe(sigma, RAbs(dy)) THEN RAbs(dy)
    ELSE RSqrt(RAdd(Sq(dx), Sq(dy)))

CollideIJ(st, i, j) ==
    CollidePair(st, i, j, RSub(st.balls[j].x, st.balls[i].x),
                RSub(st.balls[j].y, st.balls[i].y),
                DistOrFar(RSub(st.balls[j].x, st.balls[i].x),
                          RSub(st.balls[j].y, st.balls[i].y),
                          RAdd(st.balls[i].size, st.balls[j].size)))

\* check_ball_collisions, the loops from the pair (i, j) on
RECURSIVE CollideFrom(_, _, _)
CollideFrom(st, i, j) ==
    IF st.raised \/ i > Len(st.balls) THEN st
    ELSE IF j > Len(st.balls) THEN CollideFrom(st, i + 1, i + 2)
    ELSE CollideFrom(CollideIJ(st, i, j), i, j + 1)

\* PhysicsEngine.check_ball_collisions
check_ball_collisions(st) == CollideFrom(st, 1, 2)

\* the index in balls of the ball numbered n, 0 when it is not there
IndexOf(balls, n) ==
    IF \E k \in DOMAIN balls : balls[k].number = n
    THEN CHOOSE k \in DOMAIN balls : balls[k].number = n
    ELSE 0

\* update, "self.check_table_edge_collisions(ball)": ball may have left
\* the list
EdgeAt(balls, k) ==
    IF k = 0 THEN balls ELSE [balls EXCEPT ![k] = check_table_edge_collisions(@)]

\* update, "self.check_pockets()" and the rail check of the ball numbered n
PocketsThenEdges(st, moved, n) ==
    [st EXCEPT !.balls = EdgeAt(AfterPockets(moved), IndexOf(AfterPockets(moved), n)),
               !.pocketed = @ \o NewlyPocketed(moved)]

\* update, the loop "for ball in ball_list" from index k on: the list
\* iterator reads index k of the list as check_pockets has left it
RECURSIVE UpdateFrom(_, _)
UpdateFrom(st, k) ==
    IF k > Len(st.balls) THEN st
    ELSE UpdateFrom(PocketsThenEdges(st, [st.balls EXCEPT ![k] = pool_move(@, DT)],
                                     st.balls[k].number),
                    k + 1)

\* PhysicsEngine.update
update(st) == check_ball_collisions(UpdateFrom(st, 1))

----------------------------------------------------------------------------
(* The resolvers called on a pair of balls built directly, outside the     *)
(* game loop: ball_list holds <<self, other>>, either two balls of         *)
(* src/ball.py or two pool balls of src/src/ball.py; last records the      *)
(* method called and the pair before the call.                             *)

\* the inputs the harness draws from
ElasticSizes == {1, 2}
ElasticSelfYs == {0, 1}
ElasticSelfSpeeds == {<<5, 0>>, <<5, 1>>, <<0, 0>>, <<-5, 0>>}
ElasticThatSpeeds == {<<-5, 0>>, <<0, 0>>, <<-5, 2>>}
PoolPlaces == {<<0, 0>>, <<438, 213>>, <<445, 0>>, <<-445, 10>>, <<0, 220>>,
               <<100, -220>>, <<445, 220>>}
PoolOffsets == {<<0, 0>>, <<12, 16>>, <<20, 0>>, <<-12, -16>>, <<0, 24>>, <<3, 4>>, <<-6, 8>>,
                <<30, 0>>, <<7, 7>>}
PoolSelfSpeeds == {<<0, 0>>, <<10, 0>>, <<3, 4>>, <<-5, 2>>}
PoolOtherSpeeds == {<<0, 0>>, <<-10, 0>>, <<0, 5>>}

IsPool(ball) == "number" \in DOMAIN ball

Did(op, before) == [kind |-> op, e |-> NoEvent, pushed |-> <<>>, before |-> before]

InitElastic ==
    \E s1 \in ElasticSizes, s2 \in ElasticSizes, y \in ElasticSelfYs,
       v \in ElasticSelfSpeeds, w \in ElasticThatSpeeds :
        ball_list = << Ball(R(s1), R(-10), R(y), R(v[1]), R(v[2]), 0,
                            R(TableHalfExtent), R(TableHalfExtent)),
                       Ball(R(s2), R(10), R(0), R(w[1]), R(w[2]), 1,
                            R(TableHalfExtent), R(TableHalfExtent)) >>

InitPool ==
    \E p \in PoolPlaces, o \in PoolOffsets, v \in PoolSelfSpeeds, w \in PoolOtherSpeeds :
        ball_list = << PoolBall(<<R(p[1]), R(p[2])>>, <<R(v[1]), R(v[2])>>, 0),
                       PoolBall(<<R(p[1] + o[1]), R(p[2] + o[2])>>,
                                <<R(w[1]), R(w[2])>>, 1) >>

InitResolver ==
    /\ InitElastic \/ InitPool
    /\ p1 = <<0, 0>>
    /\ p2 = <<0, 0>>
    /\ t = R(0)
    /\ pq = <<>>
    /\ pc = "call"
    /\ redraws = 0
    /\ clocks = <<R(0), R(0)>>
    /\ keys_pending = 0
    /\ last = Did("init", <<>>)
    /\ ret = Inf
    /\ game = NoGame

\* one call of a resolver: after is the ball list it leaves
Resolved(op, after) ==
    /\ pc' = op
    /\ ball_list' = after
    /\ last' = Did(op, ball_list)
    /\ UNCHANGED <<t, pq, p1, p2, redraws, clocks, keys_pending, ret, game>>

\* self.time_to_hit(that) of src/ball.py
ElasticTimeToHit ==
    /\ pc = "call"
    /\ ~IsPool(ball_list[1])
    /\ pc' = "time_to_hit"
    /\ ret' = time_to_hit(ball_list[1], ball_list[2])
    /\ UNCHANGED game
    /\ last' = Did("time_to_hit", ball_list)
    /\ UNCHANGED <<ball_list, t, pq, p1, p2, redraws, clocks, keys_pending>>

\* both balls advanced by the predicted time, as run() advances them
ElasticMove ==
    /\ pc = "time_to_hit"
    /\ ~IsInf(ret)
    /\ Resolved("move", <<move(ball_list[1], ret), move(ball_list[2], ret)>>)

\* self.bounce_off(that) of src/ball.py
ElasticBounceOff ==
    /\ pc \in {"call", "move"}
    /\ ~IsPool(ball_list[1])
    /\ Resolved("bounce_off", bounce_off(ball_list[1], ball_list[2]))

\* self.bounce_off(other) of src/src/ball.py
PoolBounceOff ==
    /\ pc = "call"
    /\ IsPool(ball_list[1])
    /\ Resolved("pool_bounce_off", pool_bounce_off(ball_list[1], ball_list[2]))

\* the two rail resolvers of src/src/ball.py called on self
PoolHorizontalRail ==
    /\ pc = "call"
    /\ IsPool(ball_list[1])
    /\ Resolved("bounce_off_horizontal_rail",
                [ball_list EXCEPT ![1] = bounce_off_horizontal_rail(@, R(CANVAS_WIDTH))])

PoolVerticalRail ==
    /\ pc = "call"
    /\ IsPool(ball_list[1])
    /\ Resolved("bounce_off_vertical_rail",
                [ball_list EXCEPT ![1] = bounce_off_vertical_rail(@, R(CANVAS_HEIGHT))])

EngineOf(balls) == [balls |-> balls, pocketed |-> <<>>, raised |-> FALSE]

Checked(st) ==
    Resolved(IF st.raised THEN "raised" ELSE "check_ball_collisions", st.balls)

\* PhysicsEngine.check_ball_collisions on the pair
PoolCheckBallCollisions ==
    /\ pc = "call"
    /\ IsPool(ball_list[1])
    /\ Checked(check_ball_collisions(EngineOf(ball_list)))

NextResolver ==
    \/ ElasticTimeToHit
    \/ ElasticMove
    \/ ElasticBounceOff
    \/ PoolBounceOff
    \/ PoolHorizontalRail
    \/ PoolVerticalRail
    \/ PoolCheckBallCollisions

ResolverSpec == InitResolver /\ [][NextResolver]_vars

----------------------------------------------------------------------------
(* Claims about the resolvers of a pair (ResolverSpec).                    *)

\* total momentum of a pair of balls
Momentum(pair) ==
    << RAdd(RMul(pair[1].mass, pair[1].vx), RMul(pair[2].mass, pair[2].vx)),
       RAdd(RMul(pair[1].mass, pair[1].vy), RMul(pair[2].mass, pair[2].vy)) >>

\* C11: bounce_off, of src/src/ball.py (with restitution) as of src/ball.py
\* (elastic), leaves the total momentum m1*v1 + m2*v2 of the pair as it
\* was before the call, in x and in y
C11_MomentumConserved ==
    pc \in {"bounce_off", "pool_bounce_off"} =>
        Momentum(ball_list) = Momentum(last.before)

\* an approaching pair of pool balls has exchanged an impulse
C11_Witness ==
    /\ pc = "pool_bounce_off"
    /\ ball_list[1].vx # last.before[1].vx
    /\ ball_list[2].vx # last.before[2].vx
    /\ Momentum(ball_list) = Momentum(last.before)

\* the line of centres of a pair, its length as bounce_off computes it, and
\* whether that square root is exact
CentreDx(pair) == RSub(pair[2].x, pair[1].x)
CentreDy(pair) == RSub(pair[2].y, pair[1].y)
CentreDist(pair) == distance(pair[1], pair[2])
ExactDist(pair) == Sq(CentreDist(pair)) = RAdd(Sq(CentreDx(pair)), Sq(CentreDy(pair)))

\* the velocity of other relative to self along the normal n = (dx, dy) / dist
\* taken from the positions of pair at, for the velocities of pair
NormalVelocity(at, pair) ==
    Dot(RSub(pair[2].vx, pair[1].vx), RSub(pair[2].vy, pair[1].vy),
        RDiv(CentreDx(at), CentreDist(at)), RDiv(CentreDy(at), CentreDist(at)))

\* the pair before the call is apart (dist > 0) and not separating (vn <= 0)
Approaching(pair) ==
    /\ CentreDist(pair) # R(0)
    /\ RLe(NormalVelocity(pair, pair), R(0))

\* C12: for an approaching pair of pool balls (dist > 0, vn <= 0),
\* after bounce_off the relative velocity along the collision normal is
\* -BALL_BALL_RESTITUTION times its value before the call (exactly, where
\* the square root giving dist is exact)
C12_RestitutionLaw ==
    (pc = "pool_bounce_off" /\ Approaching(last.before) /\ ExactDist(last.before)) =>
        NormalVelocity(last.before, ball_list)
            = RMul(RNeg(BALL_BALL_RESTITUTION), NormalVelocity(last.before, last.before))

\* a pair approaching along an oblique normal has rebounded
C12_Witness ==
    /\ pc = "pool_bounce_off"
    /\ Approaching(last.before) /\ ExactDist(last.before)
    /\ CentreDx(last.before) # R(0) /\ CentreDy(last.before) # R(0)
    /\ RLt(NormalVelocity(last.before, last.before), R(0))
    /\ RLt(R(0), NormalVelocity(last.before, ball_list))

\* the components of the velocity of ball along and across the normal
\* n = (dx, dy) / dist of the pair at
AlongNormal(at, ball) ==
    Dot(ball.vx, ball.vy, RDiv(CentreDx(at), CentreDist(at)), RDiv(CentreDy(at), CentreDist(at)))
AcrossNormal(at, ball) ==
    Dot(ball.vx, ball.vy, RNeg(RDiv(CentreDy(at), CentreDist(at))),
        RDiv(CentreDx(at), CentreDist(at)))

\* kinetic energy of the two balls carried by their normal components
NormalEnergy(at, pair) ==
    RAdd(RMul(Half(pair[1].mass), Sq(AlongNormal(at, pair[1]))),
         RMul(Half(pair[2].mass), Sq(AlongNormal(at, pair[2]))))

\* kinetic energy of the relative motion along the normal:
\* (1/2) * m1*m2/(m1+m2) * vn^2
RelativeNormalEnergy(at, pair) ==
    RMul(Half(RDiv(RMul(pair[1].mass, pair[2].mass), RAdd(pair[1].mass, pair[2].mass))),
         Sq(NormalVelocity(at, pair)))

RestitutionSq == Sq(BALL_BALL_RESTITUTION)

TangentialUnchanged ==
    /\ AcrossNormal(last.before, ball_list[1]) = AcrossNormal(last.before, last.before[1])
    /\ AcrossNormal(last.before, ball_list[2]) = AcrossNormal(last.before, last.before[2])

\* C13 (as amended): for an approaching pair of pool balls, after
\* bounce_off the kinetic energy of the relative motion along the contact
\* normal is e^2 times its value before, and the velocity component of
\* each ball across the normal is unchanged
C13_RelativeNormalEnergyScales ==
    (pc = "pool_bounce_off" /\ Approaching(last.before) /\ ExactDist(last.before)) =>
        /\ RelativeNormalEnergy(last.before, ball_list)
              = RMul(RestitutionSq, RelativeNormalEnergy(last.before, last.before))
        /\ TangentialUnchanged

\* a moving ball has struck obliquely a ball at rest: the normal energy of
\* the two balls is not e^2 times what it was
C13_Witness ==
    /\ pc = "pool_bounce_off"
    /\ Approaching(last.before) /\ ExactDist(last.before)
    /\ CentreDx(last.before) # R(0) /\ CentreDy(last.before) # R(0)
    /\ ~is_moving(last.before[2])
    /\ AcrossNormal(last.before, last.before[1]) # R(0)
    /\ RLt(NormalVelocity(last.before, last.before), R(0))
    /\ NormalEnergy(last.before, ball_list)
          # RMul(RestitutionSq, NormalEnergy(last.before, last.before))

\* C13 (as stated): the kinetic energy of the two balls carried by their
\* normal components is e^2 times its value before the bounce and the
\* components across the normal are unchanged
C13_NormalEnergyScales ==
    (pc = "pool_bounce_off" /\ Approaching(last.before) /\ ExactDist(last.before)) =>
        /\ NormalEnergy(last.before, ball_list)
              = RMul(RestitutionSq, NormalEnergy(last.before, last.before))
        /\ TangentialUnchanged

\* the disc of ball reaches past a rail x = -CANVAS_WIDTH or x = CANVAS_WIDTH
PastHorizontalRail(ball) ==
    \/ RLt(RSub(ball.x, R(BALL_RADIUS)), R(-CANVAS_WIDTH))
    \/ RLt(R(CANVAS_WIDTH), RAdd(ball.x, R(BALL_RADIUS)))

\* the disc of ball reaches past a rail y = -CANVAS_HEIGHT or y = CANVAS_HEIGHT
PastVerticalRail(ball) ==
    \/ RLt(RSub(ball.y, R(BALL_RADIUS)), R(-CANVAS_HEIGHT))
    \/ RLt(R(CANVAS_HEIGHT), RAdd(ball.y, R(BALL_RADIUS)))

\* C14: bounce_off_horizontal_rail and bounce_off_vertical_rail, called on
\* a ball whose disc reaches past a rail, multiply the velocity component
\* normal to that rail by -BALL_RAIL_RESTITUTION (its sign is reversed) and
\* leave the component parallel to the rail unchanged; called on a ball
\* not past the rail they change neither position nor velocity
C14_RailBounce ==
    /\ pc = "bounce_off_horizontal_rail" =>
         IF PastHorizontalRail(last.before[1])
         THEN /\ ball_list[1].vx = RMul(RNeg(BALL_RAIL_RESTITUTION), last.before[1].vx)
              /\ Sign(ball_list[1].vx) = -Sign(last.before[1].vx)
              /\ ball_list[1].vy = last.before[1].vy
         ELSE ball_list = last.before
    /\ pc = "bounce_off_vertical_rail" =>
         IF PastVerticalRail(last.before[1])
         THEN /\ ball_list[1].vy = RMul(RNeg(BALL_RAIL_RESTITUTION), last.before[1].vy)
              /\ Sign(ball_list[1].vy) = -Sign(last.before[1].vy)
              /\ ball_list[1].vx = last.before[1].vx
         ELSE ball_list = last.before

\* a ball moving obliquely past the right rail has bounced
C14_Witness ==
    /\ pc = "bounce_off_horizontal_rail"
    /\ PastHorizontalRail(last.before[1])
    /\ RLt(R(0), last.before[1].vx)
    /\ last.before[1].vy # R(0)
    /\ RLt(ball_list[1].vx, R(0))

\* rA + rB of a pair
RadiusSum(pair) == RAdd(pair[1].size, pair[2].size)

\* the pair is interpenetrating: 0 < dist < rA + rB
Interpenetrating(pair) ==
    /\ CentreDist(pair) # R(0)
    /\ RLt(CentreDist(pair), RadiusSum(pair))

\* half the penetration depth along the normal n = (dx, dy) / dist, in x and y
HalfOverlapX(pair) ==
    RMul(RDiv(CentreDx(pair), CentreDist(pair)),
         Half(RSub(RadiusSum(pair), CentreDist(pair))))
HalfOverlapY(pair) ==
    RMul(RDiv(CentreDy(pair), CentreDist(pair)),
         Half(RSub(RadiusSum(pair), CentreDist(pair))))

\* C16: for a pair found interpenetrating (0 < dist < rA + rB),
\* check_ball_collisions displaces the two balls by equal and opposite
\* amounts of (rA + rB - dist)/2 along the line of centres, and the
\* distance between the centres afterwards is exactly rA + rB (where the
\* square root giving dist is exact)
C16_OverlapCorrection ==
    (pc = "check_ball_collisions" /\ Interpenetrating(last.before)
                                  /\ ExactDist(last.before)) =>
        /\ ball_list[1].x = RSub(last.before[1].x, HalfOverlapX(last.before))
        /\ ball_list[1].y = RSub(last.before[1].y, HalfOverlapY(last.before))
        /\ ball_list[2].x = RAdd(last.before[2].x, HalfOverlapX(last.before))
        /\ ball_list[2].y = RAdd(last.before[2].y, HalfOverlapY(last.before))
        /\ CentreDist(ball_list) = RadiusSum(ball_list)

\* a pair overlapping along an oblique line of centres has been separated
C16_Witness ==
    /\ pc = "check_ball_collisions"
    /\ Interpenetrating(last.before) /\ ExactDist(last.before)
    /\ CentreDx(last.before) # R(0) /\ CentreDy(last.before) # R(0)
    /\ ball_list[1].x # last.before[1].x
    /\ CentreDist(ball_list) = RadiusSum(ball_list)

\* C18 (as stated): the ball-ball resolution step of check_ball_collisions
\* completes without an error for every configuration of the pair, two
\* balls at the same position (dist = 0) included
C18_ResolverNeverRaises == pc # "raised"

\* the scenario of two equal balls of radius 1 meeting head-on, and the
\* same pair advanced to contact
HeadOn(pair) ==
    /\ pair[1].size = R(1) /\ pair[2].size = R(1)
    /\ pair[1].x = R(-10) /\ pair[1].y = R(0) /\ pair[1].vx = R(5) /\ pair[1].vy = R(0)
    /\ pair[2].x = R(10) /\ pair[2].y = R(0) /\ pair[2].vx = R(-5) /\ pair[2].vy = R(0)

HeadOnContact(pair) ==
    /\ pair[1].size = R(1) /\ pair[2].size = R(1)
    /\ pair[1].x = R(-1) /\ pair[1].y = R(0) /\ pair[1].vx = R(5) /\ pair[1].vy = R(0)
    /\ pair[2].x = R(1) /\ pair[2].y = R(0) /\ pair[2].vx = R(-5) /\ pair[2].vy = R(0)

\* C19: for ball A at (-10, 0) with velocity (5, 0) and ball B at (10, 0)
\* with velocity (-5, 0), both of radius 1 and of equal mass, time_to_hit
\* returns 1.8; advanced by 1.8 the balls are in contact at (-1, 0) and
\* (1, 0); and the elastic bounce_off then exchanges the velocities:
\* vA = (-5, 0) and vB = (5, 0)
C19_HeadOnExchange ==
    /\ (pc = "time_to_hit" /\ HeadOn(ball_list)) => ret = <<9, 5>>
    /\ (pc = "move" /\ HeadOn(last.before)) => HeadOnContact(ball_list)
    /\ (pc = "bounce_off" /\ HeadOnContact(last.before)) =>
          /\ ball_list[1].vx = R(-5) /\ ball_list[1].vy = R(0)
          /\ ball_list[2].vx = R(5) /\ ball_list[2].vy = R(0)

\* the head-on pair has been advanced by 1.8 and has bounced
C19_Witness ==
    /\ pc = "bounce_off"
    /\ ret = <<9, 5>>
    /\ HeadOnContact(last.before)
    /\ ball_list[1].mass = ball_list[2].mass
    /\ ball_list[1].vx = R(-5) /\ ball_list[2].vx = R(5)

----------------------------------------------------------------------------
(* The table of the pool game stepped outside the game loop: ball_list is  *)
(* PhysicsEngine's ball list (the cue ball first), pq holds                *)
(* Table.pocketed, t the time the cue ball has been moved for, last the    *)
(* method called and the ball list before the call.                        *)

MaxMoves == 4

\* the inputs the harness draws from: the cue ball, alone or with one
\* other ball, both inside the table
CuePlaces == {<<R(438), R(0)>>, <<R(0), R(0)>>, <<R(0), R(213)>>}
CueLaunches == {<<R(0), R(0)>>, <<<<15049, 250>>, R(0)>>}
OtherPlaces == {<<<<827, 2>>, R(0)>>, <<R(0), R(-213)>>, <<R(100), R(50)>>, <<R(-20), R(0)>>}
OtherLaunches == {<<R(0), R(0)>>, <<<<15049, 250>>, R(0)>>, <<<<-15049, 250>>, R(0)>>}
SlowVelocities == {<<R(0), R(0)>>, <<<<1, 20>>, R(0)>>, <<<<3, 20>>, R(0)>>,
                   <<R(0), <<-9, 100>>>>, <<<<3, 10>>, <<2, 5>>>>, <<<<1, 2>>, R(0)>>,
                   <<<<-49, 125>>, R(0)>>}

InitTable ==
    /\ \/ \E p \in CuePlaces, v \in CueLaunches, q \in OtherPlaces, w \in OtherLaunches :
             ball_list = << PoolBall(p, v, 0), PoolBall(q, w, 1) >>
       \/ \E v \in SlowVelocities :
             ball_list = << PoolBall(<<R(0), R(0)>>, v, 0) >>
    /\ p1 = <<0, 0>>
    /\ p2 = <<0, 0>>
    /\ t = R(0)
    /\ pq = <<>>
    /\ pc = "call"
    /\ redraws = 0
    /\ clocks = <<R(0), R(0)>>
    /\ keys_pending = 0
    /\ last = Did("init", <<>>)
    /\ ret = Inf
    /\ game = NoGame

Updated(st) ==
    /\ pc' = (IF st.raised THEN "raised" ELSE "update")
    /\ ball_list' = st.balls
    /\ pq' = st.pocketed
    /\ last' = Did("update", ball_list)
    /\ UNCHANGED <<t, p1, p2, redraws, clocks, keys_pending, ret, game>>

\* one cycle of PhysicsEngine.update
TableUpdate ==
    /\ pc = "call"
    /\ Updated(update([balls |-> ball_list, pocketed |-> pq, raised |-> FALSE]))

\* Ball.move(DT) on the cue ball, again and again with no collision in
\* between
TableMove ==
    /\ pc \in {"call", "move"}
    /\ RLt(t, RMul(R(MaxMoves), DT))
    /\ pc' = "move"
    /\ ball_list' = [ball_list EXCEPT ![1] = pool_move(@, DT)]
    /\ t' = RAdd(t, DT)
    /\ last' = Did("move", ball_list)
    /\ UNCHANGED <<pq, p1, p2, redraws, clocks, keys_pending, ret, game>>

NextTable ==
    \/ TableUpdate
    \/ TableMove

TableSpec == InitTable /\ [][NextTable]_vars

----------------------------------------------------------------------------
(* Claims about the table (TableSpec).                                     *)

InsideTable(ball) ==
    /\ RLe(RAbs(ball.x), R(CANVAS_WIDTH - BALL_RADIUS))
    /\ RLe(RAbs(ball.y), R(CANVAS_HEIGHT - BALL_RADIUS))

\* C15 (as stated): at the end of every PhysicsEngine.update cycle started
\* from balls inside the table, every ball of ball_list satisfies
\* |x| <= CANVAS_WIDTH - BALL_RADIUS and |y| <= CANVAS_HEIGHT - BALL_RADIUS
C15_NoBallPastRail ==
    (pc = "update" /\ \A k \in DOMAIN last.before : InsideTable(last.before[k])) =>
        \A k \in DOMAIN ball_list : InsideTable(ball_list[k])

SpeedSq(ball) == RAdd(Sq(ball.vx), Sq(ball.vy))

\* C17 (as stated): a Ball.move(DT) step never increases the speed of the
\* ball, never changes the sign of a velocity component, and a ball whose
\* velocity is (0, 0) stays at (0, 0)
C17_FrictionMonotone ==
    pc = "move" =>
        /\ RLe(SpeedSq(ball_list[1]), SpeedSq(last.before[1]))
        /\ Sign(ball_list[1].vx) * Sign(last.before[1].vx) >= 0
        /\ Sign(ball_list[1].vy) * Sign(last.before[1].vy) >= 0
        /\ ~is_moving(last.before[1]) => ~is_moving(ball_list[1])

----------------------------------------------------------------------------
(* src/src/main.py (PoolGame.run, input, _attempt_shot, make_a_shot,       *)
(* _next_move) and src/src/cuestick.py (CueStick.power, rotate, shoot and  *)
(* its animations).                                                        *)
(*                                                                         *)
(* The game runs on one thread.  Key callbacks run inside screen.update(), *)
(* which the main loop calls in _redraw and the cue stick calls in every   *)
(* frame of an animation; a callback that animates calls screen.update()   *)
(* itself.  pc is the stack of the calls that are inside screen.update(),  *)
(* innermost first; keys_pending counts the key events waiting in the Tk   *)
(* queue, and an update returns when none is waiting.  game is a record of *)
(* PoolGame.shot_made, whether input() has the keys bound, CueStick.pow,   *)
(* whether some ball is moving, the number of key events so far, and, as   *)
(* history, the executions of shoot started and the times the cue ball's   *)
(* velocity was set since shot_made was last reset.  What                  *)
(* PhysicsEngine.update does to the balls is kept only as whether some     *)
(* ball still moves; _is_game_won is taken to be False.                    *)

POWER_STEP == 10
ANGLE_STEP == 6

\* the key events of a behaviour, and the frames kept of the pull-back
\* animation (125 in the code) and of the forward stroke (as many as the
\* offset takes to reach the ball in the code)
MaxKeys == 3
PullbackFrames == 2
StrokeFrames == 2

Frame(fn, i) == [fn |-> fn, i |-> i]

\* PoolGame.__init__ and run() up to the first screen.update() of _redraw
InitGame ==
    /\ game = [shot_made |-> FALSE, bound |-> FALSE, pow |-> 0, moving |-> FALSE,
               keys |-> 0, shoots |-> 0, strikes |-> 0]
    /\ pc = <<Frame("redraw", 0)>>
    /\ keys_pending = 0
    /\ ball_list = <<>>
    /\ p1 = <<0, 0>>
    /\ p2 = <<0, 0>>
    /\ t = R(0)
    /\ pq = <<>>
    /\ redraws = 0
    /\ clocks = <<>>
    /\ last = Did("init", <<>>)
    /\ ret = Inf

Untouched == UNCHANGED <<ball_list, t, pq, p1, p2, redraws, clocks, ret>>

\* the user presses a key
KeyPress ==
    /\ game.keys < MaxKeys
    /\ keys_pending' = keys_pending + 1
    /\ game' = [game EXCEPT !.keys = @ + 1]
    /\ last' = Did("press", <<>>)
    /\ UNCHANGED pc
    /\ Untouched

\* screen.update() takes a key event from the queue: op is the callback
Dispatch(op, g, stack) ==
    /\ keys_pending > 0
    /\ keys_pending' = keys_pending - 1
    /\ game' = g
    /\ pc' = stack
    /\ last' = Did(op, <<>>)
    /\ Untouched

\* a key event while _unbind_keys has the keys unbound
KeyUnbound ==
    /\ ~game.bound
    /\ Dispatch("unbound", game, pc)

\* CueStick.power
power(g, p) == IF 0 <= g.pow + p /\ g.pow + p <= 100 THEN [g EXCEPT !.pow = @ + p] ELSE g

\* "w" and "s"
KeyPower ==
    /\ game.bound
    /\ \E p \in {POWER_STEP, -POWER_STEP} : Dispatch("power", power(game, p), pc)

\* "a" and "d": CueStick.rotate up to the screen.update() of its first step
KeyRotate ==
    /\ game.bound
    /\ Dispatch("rotate", game, <<Frame("rotate", 1)>> \o pc)

\* PoolGame._attempt_shot and make_a_shot up to the first screen.update()
\* of shoot: with no power shoot returns at once
attempt_shot(g) ==
    IF g.shot_made THEN g
    ELSE IF g.pow = 0 THEN [g EXCEPT !.shoots = @ + 1, !.shot_made = TRUE]
    ELSE [g EXCEPT !.shoots = @ + 1]

AttemptStack(g, stack) ==
    IF g.shot_made \/ g.pow = 0 THEN stack ELSE <<Frame("pullback", 1)>> \o stack

\* "space": PoolGame._attempt_shot
KeySpace ==
    /\ game.bound
    /\ Dispatch("attempt_shot", attempt_shot(game), AttemptStack(game, pc))

\* a call inside screen.update() goes on when no key event is waiting
Continue(op, g, stack) ==
    /\ keys_pending = 0
    /\ game' = g
    /\ pc' = stack
    /\ last' = Did(op, <<>>)
    /\ UNCHANGED keys_pending
    /\ Untouched

\* CueStick.rotate, the next step of the loop or the return
RotateStep ==
    /\ Head(pc).fn = "rotate"
    /\ Continue("rotate", game,
                IF Head(pc).i < ANGLE_STEP
                THEN <<Frame("rotate", Head(pc).i + 1)>> \o Tail(pc)
                ELSE Tail(pc))

\* CueStick.pullback_animation, the next frame
PullbackStep ==
    /\ Head(pc).fn = "pullback"
    /\ Head(pc).i < PullbackFrames
    /\ Continue("pullback", game, <<Frame("pullback", Head(pc).i + 1)>> \o Tail(pc))

\* the pull-back is over, or a frame of the forward stroke is
StrokeReady ==
    \/ Head(pc).fn = "pullback" /\ Head(pc).i = PullbackFrames
    \/ Head(pc).fn = "stroke"

\* CueStick.shooting_animation, one more frame: the offset has not
\* reached the ball
StrokeStep ==
    /\ StrokeReady
    /\ (IF Head(pc).fn = "stroke" THEN Head(pc).i ELSE 0) < StrokeFrames
    /\ Continue("stroke", game,
                <<Frame("stroke", IF Head(pc).fn = "stroke" THEN Head(pc).i + 1 ELSE 1)>>
                    \o Tail(pc))

\* shoot, "Update cue ball velocity", and make_a_shot, "self.shot_made = True"
strike(g) == [g EXCEPT !.strikes = @ + 1, !.moving = TRUE, !.shot_made = TRUE]

\* CueStick.shooting_animation ends: shoot sets the velocity of the cue
\* ball and returns to make_a_shot
ShootReturn ==
    /\ StrokeReady
    /\ Continue("shoot", strike(game), Tail(pc))

\* PoolGame._next_move followed by input() or _unbind_keys()
next_move(g) ==
    IF g.moving THEN [g EXCEPT !.bound = FALSE]
    ELSE IF g.shot_made
    THEN [g EXCEPT !.shot_made = FALSE, !.pow = 0, !.shoots = 0, !.strikes = 0,
                   !.bound = TRUE]
    ELSE [g EXCEPT !.bound = TRUE]

\* the screen.update() of _redraw returns: the rest of the cycle of run()
\* and the next cycle up to its screen.update(); PhysicsEngine.update
\* leaves the balls moving or brings them to rest
Cycle ==
    /\ Head(pc).fn = "redraw"
    /\ \E rolling \in (IF game.moving THEN BOOLEAN ELSE {FALSE}) :
          Continue("cycle", [next_move(game) EXCEPT !.moving = rolling], pc)

NextGame ==
    \/ KeyPress
    \/ KeyUnbound
    \/ KeyPower
    \/ KeyRotate
    \/ KeySpace
    \/ RotateStep
    \/ PullbackStep
    \/ StrokeStep
    \/ ShootReturn
    \/ Cycle

GameSpec == InitGame /\ [][NextGame]_vars

----------------------------------------------------------------------------
(* Claims about the turn of the pool game (GameSpec).                      *)

\* C20 (as stated): between the start of an execution of CueStick.shoot
\* and the reset of shot_made by _next_move no second execution of shoot
\* starts, and the cue ball's velocity is not set a second time
C20_OneShotPerTurn ==
    /\ game.shoots <= 1
    /\ game.strikes <= 1

----------------------------------------------------------------------------
(* src/src/main.py, PoolGame.run with the balls on the table: ball_list is *)
(* PoolGame.ball_list in the order of _setup_balls (the cue ball last), pq *)
(* Table.pocketed, and game a record of shot_made, game_won, whether       *)
(* input() has the keys bound, and the shots made so far.  pc is "play"    *)
(* at the top of the inner loop of run, "redraw" inside the                *)
(* screen.update() of _redraw, "won" when the inner loop has ended and     *)
(* "raised" after an exception.  last holds the ball list before the last  *)
(* PhysicsEngine.update.  A shot is the whole callback of "space", with    *)
(* the power set before it.                                                *)

MaxShots == 2

\* the velocity CueStick.shoot gives the cue ball with the cue stick not
\* rotated: along +x at the angle 180 of CueStick.__init__ on the first
\* shot, along +y at the angle 270 of CueStick.reset on the later ones
ShotVelocity(shots) ==
    IF shots = 0 THEN <<<<15049, 250>>, R(0)>> ELSE <<R(0), <<15049, 250>>>>

\* the tables a play starts from: both balls at rest before the first
\* shot, then three tables with the last shot under way: ball 1 rolling
\* into the lower side pocket, the cue ball rolling into the upper side
\* pocket, the cue ball about to hit ball 1
RestTable == << PoolBall(<<R(100), R(50)>>, <<R(0), R(0)>>, 1),
                PoolBall(CUEBALL_POS, <<R(0), R(0)>>, 0) >>

PottingTables ==
    { << PoolBall(<<R(0), R(-194)>>, <<R(0), <<-15049, 250>>>>, 1),
         PoolBall(<<R(100), R(50)>>, v, 0) >> :
      v \in {<<R(0), R(0)>>, <<<<15049, 250>>, R(0)>>} }

ScratchTable == << PoolBall(<<R(100), R(50)>>, <<R(0), R(0)>>, 1),
                   PoolBall(<<R(0), R(194)>>, <<R(0), <<15049, 250>>>>, 0) >>

BreakTable == << PoolBall(<<R(50), R(0)>>, <<R(0), R(0)>>, 1),
                 PoolBall(<<<<51, 2>>, R(0)>>, <<<<15049, 250>>, R(0)>>, 0) >>

InitPlay ==
    /\ \/ ball_list = RestTable /\ game = [shot_made |-> FALSE, game_won |-> FALSE,
                                           bound |-> FALSE, shots |-> 0]
       \/ /\ ball_list \in PottingTables \cup {ScratchTable, BreakTable}
          /\ game = [shot_made |-> TRUE, game_won |-> FALSE, bound |-> FALSE,
                     shots |-> MaxShots]
    /\ pc = "play"
    /\ pq = <<>>
    /\ p1 = <<0, 0>>
    /\ p2 = <<0, 0>>
    /\ t = R(0)
    /\ redraws = 0
    /\ clocks = <<>>
    /\ keys_pending = 0
    /\ last = Did("init", <<>>)
    /\ ret = Inf

PlayedUpdate(st) ==
    /\ pc' = (IF st.raised THEN "raised" ELSE "redraw")
    /\ ball_list' = st.balls
    /\ pq' = st.pocketed
    /\ last' = Did("update", ball_list)
    /\ UNCHANGED <<t, p1, p2, redraws, clocks, keys_pending, ret, game>>

\* run, "self._update_game()" up to the screen.update() of _redraw
PlayUpdate ==
    /\ pc = "play"
    /\ PlayedUpdate(update([balls |-> ball_list, pocketed |-> pq, raised |-> FALSE]))

\* make_a_shot under the guard of _attempt_shot, called from the
\* screen.update() of _redraw while input() has the keys bound
PlayShot ==
    /\ pc = "redraw"
    /\ game.bound
    /\ ~game.shot_made
    /\ game.shots < MaxShots
    /\ \E k \in DOMAIN ball_list :
          /\ IsCueBall(ball_list[k])
          /\ ball_list' = [ball_list EXCEPT ![k].vx = ShotVelocity(game.shots)[1],
                                            ![k].vy = ShotVelocity(game.shots)[2]]
    /\ game' = [game EXCEPT !.shot_made = TRUE, !.shots = @ + 1]
    /\ last' = Did("shot", ball_list)
    /\ UNCHANGED <<pc, pq, t, p1, p2, redraws, clocks, keys_pending, ret>>

AnyMoving(balls) == \E k \in DOMAIN balls : is_moving(balls[k])

\* PoolGame._is_game_won; ball_list[0] of an empty list raises IndexError
is_game_won(balls) == Len(balls) = 1 /\ IsCueBall(balls[1])

\* a faulty variant of AfterNextMove: shot_made is left as it is
AfterNextMoveKeepsShot(balls, g) ==
    IF AnyMoving(balls) THEN [g EXCEPT !.bound = FALSE]
    ELSE IF is_game_won(balls) THEN [g EXCEPT !.game_won = TRUE]
    ELSE [g EXCEPT !.bound = TRUE]

\* a faulty variant of AfterNextMove: the win check is made while balls
\* still move
AfterNextMoveWhileMoving(balls, g) ==
    IF is_game_won(balls) THEN [g EXCEPT !.shot_made = FALSE, !.game_won = TRUE]
    ELSE IF AnyMoving(balls) THEN [g EXCEPT !.bound = FALSE]
    ELSE [g EXCEPT !.shot_made = FALSE, !.bound = TRUE]

\* the rest of the cycle of run after _update_game: _next_move, then
\* _is_game_won and input(), or _unbind_keys()
AfterNextMove(balls, g) ==
    IF AnyMoving(balls) THEN [g EXCEPT !.bound = FALSE]
    ELSE IF is_game_won(balls) THEN [g EXCEPT !.shot_made = FALSE, !.game_won = TRUE]
    ELSE [g EXCEPT !.shot_made = FALSE, !.bound = TRUE]

PlayNextMove ==
    /\ pc = "redraw"
    /\ game' = AfterNextMove(ball_list, game)
    /\ pc' = (IF ~AnyMoving(ball_list) /\ ball_list = <<>> THEN "raised"
              ELSE IF game'.game_won THEN "won" ELSE "play")
    /\ UNCHANGED <<ball_list, pq, t, p1, p2, redraws, clocks, keys_pending, ret, last>>

NextPlay ==
    \/ PlayUpdate
    \/ PlayShot
    \/ PlayNextMove

PlaySpec == InitPlay /\ [][NextPlay]_vars

\* the main loop keeps running until the game is won
FairPlaySpec ==
    /\ PlaySpec
    /\ ([]<>(pc \notin {"play", "redraw"}) \/ []<><<PlayUpdate>>_vars)
    /\ ([]<>(pc \notin {"play", "redraw"}) \/ []<><<PlayNextMove>>_vars)

----------------------------------------------------------------------------
(* Claims about the game loop with the balls on the table (PlaySpec,       *)
(* FairPlaySpec).                                                          *)

OnlyCueBallAtRest(balls) ==
    /\ Len(balls) = 1
    /\ IsCueBall(balls[1])
    /\ ~AnyMoving(balls)

\* C21: game_won is True only when ball_list is exactly the cue ball, at
\* rest; no cycle of run ends (pc back at the top of the loop) with only
\* the cue ball at rest and game_won still False; the win check raises no
\* exception
C21_WinOnlyCueBallLeft ==
    /\ game.game_won => OnlyCueBallAtRest(ball_list)
    /\ (pc = "play" /\ last.kind # "init") => ~OnlyCueBallAtRest(ball_list)
    /\ pc = "won" => game.game_won
    /\ pc # "raised"

\* the last object ball was pocketed in the cycle that set game_won
C21_Witness ==
    /\ pc = "won"
    /\ game.game_won
    /\ last.kind = "update"
    /\ Len(last.before) = 2
    /\ OnlyCueBallAtRest(ball_list)

CueBalls(balls) == {k \in DOMAIN balls : IsCueBall(balls[k])}

Scratches(pocketed) == Cardinality({k \in DOMAIN pocketed : pocketed[k] = 0})

AtCueBallPos(ball) ==
    /\ ball.x = CUEBALL_POS[1] /\ ball.y = CUEBALL_POS[2]
    /\ ball.vx = R(0) /\ ball.vy = R(0)

\* C22: ball_list always holds exactly one cue ball and no object ball
\* that Table.pocketed records; no step makes ball_list longer, and a
\* cycle that pockets the cue ball leaves it at CUEBALL_POS with velocity
\* (0, 0)
C22_OneCueBall ==
    /\ [](/\ Cardinality(CueBalls(ball_list)) = 1
          /\ \A k \in DOMAIN pq, j \in DOMAIN ball_list :
                pq[k] # 0 => ball_list[j].number # pq[k])
    /\ [][/\ Len(ball_list') <= Len(ball_list)
          /\ Scratches(pq') > Scratches(pq) =>
                \A k \in CueBalls(ball_list') : AtCueBallPos(ball_list'[k])]_vars

\* the cue ball has dropped into the upper side pocket and is back on its
\* spot, with ball 1 still on the table
C22_Witness ==
    /\ pc = "redraw"
    /\ last.kind = "update"
    /\ Scratches(pq) = 1
    /\ Len(ball_list) = 2
    /\ AtCueBallPos(ball_list[2])
    /\ ~AtCueBallPos(last.before[2])

\* a ball after one Ball.move(DT) and one rail check
Stepped(ball) == check_table_edge_collisions(pool_move(ball, DT))

\* no two balls of the list are in contact: some axis separates each pair
\* by more than the sum of the radii
NoContact(balls) ==
    \A i, j \in DOMAIN balls :
        i < j => \/ RLt(RAdd(balls[i].size, balls[j].size), RAbs(RSub(balls[j].x, balls[i].x)))
                 \/ RLt(RAdd(balls[i].size, balls[j].size), RAbs(RSub(balls[j].y, balls[i].y)))

\* C28 (as stated): after a PhysicsEngine.update in which no balls
\* collided, every ball still in ball_list is the ball it was before the
\* call moved once by DT and rail-checked once (or the cue ball put back
\* on its spot), also when a ball was pocketed during the call
C28_EveryBallMovedOnce ==
    (pc = "redraw" /\ last.kind = "update" /\ NoContact(ball_list)) =>
        \A k \in DOMAIN ball_list :
            \E j \in DOMAIN last.before :
                /\ last.before[j].number = ball_list[k].number
                /\ \/ ball_list[k] = Stepped(last.before[j])
                   \/ IsCueBall(ball_list[k]) /\ AtCueBallPos(ball_list[k])

----------------------------------------------------------------------------
(* Further claims about the driver (Spec).                                 *)

IsCollisionEvent(e) == e.a # 0 \/ e.b # 0 \/ e.paddle # 0

Participants(e) == {e.a, e.b} \ {0}

\* C23 (as stated): the events pushed after a resolved collision event
\* are events of the balls that took part in it, and the pass that
\* processes a redraw event pushes the next redraw event and no collision
\* event
C23_RepredictOnlyParticipants ==
    /\ last.kind = "return" =>
          \A k \in DOMAIN last.pushed : ~IsCollisionEvent(last.pushed[k])
    /\ last.kind \in {"ball", "vwall", "hwall", "paddle"} =>
          \A k \in DOMAIN last.pushed :
              Participants(last.pushed[k]) \cap Participants(last.e) # {}

\* the centres of balls i and j are at least the sum of the radii apart
Apart(balls, i, j) ==
    RLe(Sq(RAdd(balls[i].size, balls[j].size)),
        RAdd(Sq(RSub(balls[j].x, balls[i].x)), Sq(RSub(balls[j].y, balls[i].y))))

\* C26 (as stated): the balls do not overlap at the start, and in every
\* state reached by processing events no two balls overlap
C26_NoOverlap == \A i, j \in DOMAIN ball_list : i < j => Apart(ball_list, i, j)

\* the sum over the balls of m * |v|^2 / 2
RECURSIVE KineticEnergy(_, _)
KineticEnergy(balls, i) ==
    IF i > Len(balls) THEN R(0)
    ELSE RAdd(RMul(Half(balls[i].mass), RAdd(Sq(balls[i].vx), Sq(balls[i].vy))),
              KineticEnergy(balls, i + 1))

\* C29 (as stated): no pass of the loop that resolves a contact (a
\* ball-ball, wall or paddle bounce) leaves the balls with more kinetic
\* energy than they had before it
C29_EnergyNeverGrows ==
    [][last'.kind \in {"ball", "vwall", "hwall", "paddle"} =>
          RLe(KineticEnergy(ball_list', 1), KineticEnergy(ball_list, 1))]_vars

\* the centres of balls i and j are exactly the sum of the radii apart
Tangent(balls, i, j) ==
    RAdd(Sq(RSub(balls[j].x, balls[i].x)), Sq(RSub(balls[j].y, balls[i].y)))
        = Sq(RAdd(balls[i].size, balls[j].size))

\* the ball touches the rectangle of the paddle where the paddle is now: its
\* centre is within the rectangle enlarged by the ball size
AtPaddle(self, paddle) ==
    /\ RLe(RSub(RSub(paddle.location[1], Half(paddle.width)), self.size), self.x)
    /\ RLe(self.x, RAdd(RAdd(paddle.location[1], Half(paddle.width)), self.size))
    /\ RLe(RSub(RSub(paddle.location[2], Half(paddle.height)), self.size), self.y)
    /\ RLe(self.y, RAdd(RAdd(paddle.location[2], Half(paddle.height)), self.size))

\* C27 (as stated): after the pass that resolves a ball-ball event the two
\* balls are exactly the sum of their radii apart, and after the pass that
\* resolves a paddle event the ball is at the paddle's current rectangle
\* (the resolvers change velocities only, so the positions are those of the
\* moment of resolution)
C27_ContactHoldsWhenResolved ==
    /\ last.kind = "ball" => Tangent(ball_list, last.e.a, last.e.b)
    /\ last.kind = "paddle" => AtPaddle(ball_list[last.e.a], PaddleOf(last.e.paddle))

----------------------------------------------------------------------------
(* Further claims about the resolvers (ResolverSpec).                      *)

Separating(pair) ==
    /\ CentreDist(pair) # R(0)
    /\ RLt(R(0), NormalVelocity(pair, pair))

\* C24: bounce_off of the pool ball called on a pair that is separating
\* along the line of centres (vn > 0), or on a pair at distance zero,
\* leaves both balls, positions and velocities, as they were
C24_NoOpWhenSeparatingOrCoincident ==
    (pc = "pool_bounce_off" /\ (CentreDist(last.before) = R(0) \/ Separating(last.before))) =>
        ball_list = last.before

\* bounce_off has returned on a pair of moving balls that were separating
C24_Witness ==
    /\ pc = "pool_bounce_off"
    /\ Separating(last.before)
    /\ is_moving(last.before[1]) /\ is_moving(last.before[2])
    /\ ball_list = last.before

----------------------------------------------------------------------------
(* src/src/handler.py, Handler.calculate_ball_intersection, called as      *)
(* draw_guide_line calls it: p1 is start_pos, p2 is end_pos, ball_list     *)
(* holds the ball, ret the value returned, <<>> for None and <<point>>     *)
(* for a point (x, y).                                                     *)

\* "discriminant := b**2 - 4*a*c >= 0" binds the name to the value of the
\* comparison, and math.sqrt(True) is 1.0
SqrtOfTest == R(1)

\* the branch "if 0 < t < 1"
PointAt(start, dx, dy, tt) ==
    IF RLt(R(0), tt) /\ RLt(tt, R(1))
    THEN << <<RAdd(R(start[1]), RMul(tt, dx)), RAdd(R(start[2]), RMul(tt, dy))>> >>
    ELSE <<>>

\* calculate_ball_intersection from "if discriminant := ..." on
IntersectionOf(start, dx, dy, a, b, c) ==
    IF RLe(R(0), RSub(Sq(b), RMul(R(4), RMul(a, c))))
    THEN PointAt(start, dx, dy, RDiv(RSub(RNeg(b), SqrtOfTest), RMul(R(2), a)))
    ELSE <<>>

calculate_ball_intersection(start, end, ball) ==
    IntersectionOf(start, R(end[1] - start[1]), R(end[2] - start[2]),
                   R((end[1] - start[1]) * (end[1] - start[1])
                     + (end[2] - start[2]) * (end[2] - start[2])),
                   RMul(R(2), RAdd(RMul(R(end[1] - start[1]), RSub(R(start[1]), ball.x)),
                                   RMul(R(end[2] - start[2]), RSub(R(start[2]), ball.y)))),
                   RSub(RAdd(Sq(RSub(R(start[1]), ball.x)), Sq(RSub(R(start[2]), ball.y))),
                        R(BALL_RADIUS * BALL_RADIUS)))

\* the inputs the harness draws from: the cue ball's place, the end of
\* the guide line and the place of an object ball
GuideStarts == {<<0, 0>>, <<-20, 5>>, <<10, -10>>}
GuideEnds == {<<100, 0>>, <<0, 100>>, <<60, 80>>, <<-100, 0>>, <<80, 60>>, <<100, 100>>}
GuideBalls == {<<50, 0>>, <<50, 20>>, <<50, 12>>, <<30, 40>>, <<0, 60>>, <<40, 30>>, <<-50, 3>>}

InitHandler ==
    /\ \E s \in GuideStarts, e \in GuideEnds, c \in GuideBalls :
          /\ p1 = s
          /\ p2 = e
          /\ ball_list = << PoolBall(<<R(c[1]), R(c[2])>>, <<R(0), R(0)>>, 1) >>
    /\ pc = "call"
    /\ ret = <<>>
    /\ t = R(0)
    /\ pq = <<>>
    /\ redraws = 0
    /\ clocks = <<>>
    /\ keys_pending = 0
    /\ last = Did("init", <<>>)
    /\ game = NoGame

\* handler.calculate_ball_intersection(start_pos, end_pos, ball)
CallBallIntersection ==
    /\ pc = "call"
    /\ ret' = calculate_ball_intersection(p1, p2, ball_list[1])
    /\ pc' = "calculate_ball_intersection"
    /\ last' = Did("calculate_ball_intersection", ball_list)
    /\ UNCHANGED <<ball_list, t, pq, p1, p2, redraws, clocks, keys_pending, game>>

NextHandler == CallBallIntersection

HandlerSpec == InitHandler /\ [][NextHandler]_vars

----------------------------------------------------------------------------
(* Claims about the guide line (HandlerSpec).                              *)

\* the segment start_pos + t * (end_pos - start_pos) against the circle
\* of radius BALL_RADIUS about the ball: a, b/2 and c of the quadratic,
\* and its discriminant over 4
GuideA == R((p2[1] - p1[1]) * (p2[1] - p1[1]) + (p2[2] - p1[2]) * (p2[2] - p1[2]))
GuideHalfB ==
    RAdd(RMul(R(p2[1] - p1[1]), RSub(R(p1[1]), ball_list[1].x)),
         RMul(R(p2[2] - p1[2]), RSub(R(p1[2]), ball_list[1].y)))
GuideC ==
    RSub(RAdd(Sq(RSub(R(p1[1]), ball_list[1].x)), Sq(RSub(R(p1[2]), ball_list[1].y))),
         R(BALL_RADIUS * BALL_RADIUS))
GuideDisc == RSub(Sq(GuideHalfB), RMul(GuideA, GuideC))

\* the parameter at which the segment enters the circle, where the root
\* is exact
GuideEntry == RDiv(RSub(RNeg(GuideHalfB), RSqrt(GuideDisc)), GuideA)

OnCircle(point) ==
    RAdd(Sq(RSub(point[1], ball_list[1].x)), Sq(RSub(point[2], ball_list[1].y)))
        = R(BALL_RADIUS * BALL_RADIUS)

\* C25 (as stated): calculate_ball_intersection returns None when the
\* line misses the circle of radius BALL_RADIUS about the ball; every
\* point it returns lies on that circle; and when the segment enters the
\* circle at a parameter strictly between 0 and 1 it returns the point of
\* entry
C25_GuideLineMeetsBall ==
    pc = "calculate_ball_intersection" =>
        /\ RLt(GuideDisc, R(0)) => ret = <<>>
        /\ ret # <<>> => OnCircle(ret[1])
        /\ (/\ RLe(R(0), GuideDisc)
            /\ Sq(RSqrt(GuideDisc)) = GuideDisc
            /\ RLt(R(0), GuideEntry) /\ RLt(GuideEntry, R(1))) =>
              ret = PointAt(p1, R(p2[1] - p1[1]), R(p2[2] - p1[2]), GuideEntry)

====
